---------------------------- MODULE Spec2Model ----------------------------
(***************************************************************************)
(* Playlist Polisher: the asynchronous sort-job subsystem.                 *)
(*                                                                         *)
(* The model covers the sort engine (sort_service.py), the job store       *)
(* (job_service.py), the background worker (task_executor.py), the         *)
(* admission and cancel routes (routes/sort.py), the operation log         *)
(* (db/operations.py), the undo route (routes/playlists.py), the           *)
(* scheduler (scheduler_service.py, db/schedules.py) and the startup       *)
(* sweep (main.py).                                                        *)
(*                                                                         *)
(* Conventions.  Positions handed to the remote API are 0-based, as in     *)
(* the source; TLA+ sequences are 1-based, so seq[i + 1] is the item at    *)
(* remote position i.  Strings that the code compares are sequences of     *)
(* ASCII codes, compared lexicographically as Python compares str.         *)
(* Time is counted in minutes.  The remote collaborator always returns a   *)
(* snapshot id, every item it returns carries a track with an id, a uri    *)
(* and a (possibly empty) name; the other track fields may be absent.      *)
(***************************************************************************)
EXTENDS Integers, Sequences, FiniteSets, TLC

NULL == "null"

(***************************************************************************)
(* Bounds of the model.                                                    *)
(***************************************************************************)
\* longest initial track list (SpecSort, SpecUndo)
MaxLen == 3
\* most rows of sort_jobs
MaxJobs == 2
\* most steps of the clock
MaxTicks == 1
\* most process restarts
MaxCrashes == 1
\* most writes to a playlist by clients other than this program
MaxExternal == 1
\* most rows of playlist_operations an initial log holds (SpecLog)
MaxOps == 2
MaxSchedules == 3

(***************************************************************************)
(* Track catalogue: what the remote returns for a track id.                *)
(* An optional value is <<>> (None) or <<v>>.  name is always a string;    *)
(* artist, album, release_date and duration_ms may be absent, empty, zero  *)
(* or differ only in letter case.                                          *)
(*   "a" = <<97>>, "b" = <<98>>, "A" = <<65>>, "B" = <<66>>,               *)
(*   "1" = <<49>>, "2" = <<50>>, "" = <<>>                                 *)
(***************************************************************************)
None == <<>>
Some(v) == <<v>>

TrackInfo(id) ==
    CASE id = 1 -> [name |-> <<98>>, artist |-> Some(<<65>>), album |-> None,
                    release_date |-> Some(<<50>>), duration_ms |-> Some(3)]
      [] id = 2 -> [name |-> <<66>>, artist |-> Some(<<97>>), album |-> Some(<<98>>),
                    release_date |-> None, duration_ms |-> Some(0)]
      [] id = 3 -> [name |-> <<97>>, artist |-> None, album |-> Some(<<66>>),
                    release_date |-> Some(<<49>>), duration_ms |-> Some(3)]
      [] id = 4 -> [name |-> <<>>, artist |-> Some(<<98>>), album |-> Some(<<>>),
                    release_date |-> Some(<<50>>), duration_ms |-> None]
      [] OTHER  -> [name |-> <<97, 98>>, artist |-> Some(<<>>), album |-> Some(<<65>>),
                    release_date |-> Some(<<49, 50>>), duration_ms |-> Some(id)]

TrackIds == {1, 2, 3, 4}

\* an item of a playlist: the track it holds and the remote added_at stamp
\* (minutes since the epoch, at least 1; None when the remote gives none)
Item(id, added_at) == [id |-> id, added_at |-> added_at]

\* the items initial playlists are built from: ties and absent values under
\* every sort field, and one track held twice with different stamps
Items == {Item(1, Some(2)), Item(2, Some(1)), Item(3, None),
          Item(4, Some(1)), Item(1, Some(1)), Item(3, Some(2))}

\* the clock starts after every initial added_at stamp
StartTime == 2 + 1

SortFields == {"title", "artist", "album", "release_date", "date_added", "duration"}
Directions == {"asc", "desc"}
Methods == {"fast", "preserve"}

(***************************************************************************)
(* Sequence helpers.                                                       *)
(***************************************************************************)
Min2(a, b) == IF a <= b THEN a ELSE b

\* s[a..b] with 1-based inclusive bounds, empty when a > b
Slice(s, a, b) == IF a > b THEN <<>> ELSE SubSeq(s, a, Min2(b, Len(s)))

\* list.pop(i) with 0-based i: the list without position i
PopAt(s, i) == Slice(s, 1, i) \o Slice(s, i + 2, Len(s))

\* list.insert(i, x) with 0-based i (i <= Len(s))
InsertAt(s, i, x) == Slice(s, 1, i) \o <<x>> \o Slice(s, i + 1, Len(s))

\* list.index(x): 0-based position of the first occurrence
IndexOf(s, x) == CHOOSE i \in 0..(Len(s) - 1) :
                    /\ s[i + 1] = x
                    /\ \A k \in 0..(i - 1) : s[k + 1] # x

\* Python's str comparison: lexicographic on code points
RECURSIVE LexLess(_, _)
LexLess(a, b) ==
    IF b = <<>> THEN FALSE
    ELSE IF a = <<>> THEN TRUE
    ELSE IF Head(a) < Head(b) THEN TRUE
    ELSE IF Head(a) > Head(b) THEN FALSE
    ELSE LexLess(Tail(a), Tail(b))

\* str.lower() on ASCII
Lower(s) == [i \in 1..Len(s) |-> IF s[i] >= 65 /\ s[i] <= 90 THEN s[i] + 32 ELSE s[i]]

\* no track is held twice
IsDistinct(tracks) == \A a, b \in 1..Len(tracks) : a # b => tracks[a].id # tracks[b].id

(***************************************************************************)
(* sort_service.py                                                         *)
(***************************************************************************)
\* safe_get(...) on a string field: None and '' give the default
safe_get_str(value, default) ==
    IF value = None \/ value[1] = <<>> THEN default ELSE value[1]

\* safe_get(...) on a number field: None and 0 give the default
safe_get_int(value, default) ==
    IF value = None \/ value[1] = 0 THEN default ELSE value[1]

\* the key extractor chosen by get_sort_key_function; every key is a
\* sequence of naturals (an int key n is <<n>>)
get_sort_key_function(sort_by, t) ==
    LET info == TrackInfo(t.id) IN
    CASE sort_by = "title"        -> Lower(safe_get_str(Some(info.name), <<>>))
      [] sort_by = "artist"       -> Lower(safe_get_str(info.artist, <<>>))
      [] sort_by = "album"        -> Lower(safe_get_str(info.album, <<>>))
      \* default '0000-00-00'
      [] sort_by = "release_date" ->
             safe_get_str(info.release_date, <<48, 48, 48, 48, 45, 48, 48, 45, 48, 48>>)
      \* default '1970-01-01T00:00:00Z' is the epoch, stamp 0
      [] sort_by = "date_added"   -> <<safe_get_int(t.added_at, 0)>>
      \* int(... default '0')
      [] sort_by = "duration"     -> <<safe_get_int(info.duration_ms, 0)>>

\* where sorted() puts x among the already placed elements: after every
\* element that does not have to follow it (stable, also with reverse=True)
RECURSIVE InsertSorted(_, _, _, _)
InsertSorted(placed, x, keys, reverse) ==
    IF placed = <<>> THEN <<x>>
    ELSE LET h == Head(placed)
             xFirst == IF reverse THEN LexLess(keys[h], keys[x])
                                  ELSE LexLess(keys[x], keys[h])
         IN IF xFirst THEN <<x>> \o placed
            ELSE <<h>> \o InsertSorted(Tail(placed), x, keys, reverse)

RECURSIVE SortIndices(_, _, _)
SortIndices(n, keys, reverse) ==
    IF n = 0 THEN <<>>
    ELSE InsertSorted(SortIndices(n - 1, keys, reverse), n, keys, reverse)

\* sorted_indexed of sort_playlist_preserve_dates: the original 0-based
\* indices of tracks in target order
sorted_indexed(tracks, sort_by, direction) ==
    LET keys == [i \in 1..Len(tracks) |-> get_sort_key_function(sort_by, tracks[i])]
        idx  == SortIndices(Len(tracks), keys, direction = "desc")
    IN [p \in 1..Len(tracks) |-> idx[p] - 1]

\* sorted(tracks, key=key_func, reverse=reverse)
sorted_tracks(tracks, sort_by, direction) ==
    LET si == sorted_indexed(tracks, sort_by, direction)
    IN [p \in 1..Len(tracks) |-> tracks[si[p] + 1]]

calculate_moves_needed(current_order, sorted_order) ==
    Cardinality({i \in 1..Min2(Len(current_order), Len(sorted_order)) :
                    current_order[i].id # sorted_order[i].id})

\* moves_needed of sort_playlist_preserve_dates (by original index)
preserve_moves_needed(tracks, sort_by, direction) ==
    LET si == sorted_indexed(tracks, sort_by, direction)
    IN Cardinality({p \in 1..Len(tracks) : si[p] # p - 1})

\* a move that always inserts after the target position
InsertBefore_after(target_pos, current_pos) == target_pos + 1

\* insert_before of the move that brings the item at current_pos to target_pos
InsertBefore(target_pos, current_pos) ==
    IF target_pos < current_pos THEN target_pos ELSE target_pos + 1

(***************************************************************************)
(* The remote collaborator.                                                *)
(***************************************************************************)
\* a reorder that copies the item over its neighbour instead of moving it
RemoteReorder_copy(seq, range_start, insert_before) ==
    [seq EXCEPT ![Min2(insert_before, Len(seq) - 1) + 1] = seq[range_start + 1]]

\* playlist_reorder_items(range_start, insert_before, range_length=1): the
\* item at range_start is taken out and put back before the item that was at
\* insert_before
RemoteReorder(seq, range_start, insert_before) ==
    LET x == seq[range_start + 1]
        rest == PopAt(seq, range_start)
        at == IF insert_before > range_start THEN insert_before - 1 ELSE insert_before
    IN InsertAt(rest, at, x)

RemoteReorderValid(seq, range_start, insert_before) ==
    /\ range_start >= 0 /\ range_start < Len(seq)
    /\ insert_before >= 0 /\ insert_before <= Len(seq)

\* playlist_replace_items / playlist_add_items hand over uris only: the
\* remote stamps every item it stores with the time of the call
RemoteItems(uris, t) == [i \in 1..Len(uris) |-> Item(uris[i], Some(t))]

\* track['uri'] of every track, in order
Uris(tracks) == [i \in 1..Len(tracks) |-> tracks[i].id]

(***************************************************************************)
(* Program constants.                                                      *)
(***************************************************************************)
\* ThreadPoolExecutor(max_workers=10)
max_workers == 10
\* MAX_CONCURRENT_JOBS of start_sort
MAX_CONCURRENT_JOBS == 2
\* DEFAULT_EXPIRY_DAYS of the operation log, in minutes
ExpiryMinutes == 7 * 24 * 60
\* pending timeout of a job with fewer than 100 tracks, in minutes
timeout_minutes(total_tracks) ==
    IF total_tracks < 100 THEN 2
    ELSE IF total_tracks < 500 THEN 5
    ELSE IF total_tracks < 1000 THEN 10
    ELSE 15

\* items per page fetched and per replace/append batch; 100 in the source,
\* scaled down so that playlists of a few items span several pages
batch_size == 2

Users == {"u1", "u2"}
Playlists == {"p1", "p2"}

Active == {"pending", "in_progress"}
Terminal == {"completed", "failed", "cancelled"}

ERR_RESTART == "Service restarted while job was running"
ERR_TIMEOUT == "Job timed out - did not start within expected timeframe"
ERR_EXCEPTION == "exception"

(***************************************************************************)
(* State.                                                                  *)
(***************************************************************************)
VARIABLES
    phase,      \* lifespan: "down", "recovered" (sweep done), "up" (serving)
    now,        \* the clock, in minutes
    jobs,       \* table sort_jobs: sequence of rows, job id = index
    wk,         \* per job, the local variables of its _run_sort_job call
    running,    \* _running_jobs: job id -> cancellation flag
    remote,     \* the remote playlists: playlist id -> sequence of items
    snapshot,   \* the remote snapshot id of each playlist
    ops,        \* table playlist_operations: sequence of rows in id order
    nextOp,     \* the next AUTOINCREMENT id of playlist_operations
    schedules,  \* table playlist_schedules: sequence of rows in id order
    nextSched,  \* sqlite_sequence of playlist_schedules: the last id given
    sched,      \* the scheduler thread: its position in run_due
    creq,       \* the cancel request being handled: a job id, or 0
    resp,       \* the outcome of the last request handled
    hist        \* history: what the properties below refer back to

vars == <<phase, now, jobs, wk, running, remote, snapshot, ops, nextOp,
          schedules, nextSched, sched, creq, resp, hist>>

JobIds == 1..Len(jobs)

NoResp == [kind |-> "none", user_id |-> NULL, playlist_id |-> NULL, code |-> 0, job_id |-> 0]

\* the scheduler thread between two ticks
SchedIdle == [pc |-> "sleep", due |-> <<>>]

\* crashes: restarts so far; external: writes by other clients so far;
\* preCrash: sort_jobs as the last crash left it; before/clean: the order
\* each playlist had when the last worker first read it, and whether only
\* that worker has written to it since; late: per job, the remote mutation
\* calls its strategy issued with the job's cancel event already set
NoHist == [crashes |-> 0, external |-> 0, preCrash |-> <<>>,
           sortJob |-> [p \in Playlists |-> 0],
           before |-> [p \in Playlists |-> <<>>],
           clean |-> [p \in Playlists |-> FALSE],
           late |-> [j \in 1..MaxJobs + 1 |-> 0]]

(***************************************************************************)
(* job_service.py                                                          *)
(***************************************************************************)
\* the row create_job inserts
NewJob(playlist_id, user_id, sort_by, direction, method, total_tracks) ==
    [playlist_id |-> playlist_id, user_id |-> user_id, sort_by |-> sort_by,
     direction |-> direction, method |-> method, status |-> "pending",
     progress |-> 0, total |-> total_tracks, started_at |-> now,
     completed_at |-> None, error |-> NULL]

\* update_job(job_id, **upd): sets the fields given, and completed_at when
\* the status given is terminal
update_job(j, upd) ==
    LET row == jobs[j]
        new == [f \in DOMAIN row |->
                  IF f \in DOMAIN upd THEN upd[f]
                  ELSE IF f = "completed_at" /\ "status" \in DOMAIN upd
                          /\ upd.status \in Terminal THEN Some(now)
                  ELSE row[f]]
    IN [jobs EXCEPT ![j] = new]

get_user_active_job_count(user_id) ==
    Cardinality({j \in JobIds : jobs[j].user_id = user_id /\ jobs[j].status \in Active})

\* ORDER BY started_at DESC LIMIT 1 among the active jobs of the playlist;
\* started_at stamps are unique in the source (microseconds), so of two
\* jobs created in the same minute the later row is the later stamp
LatestActive(playlist_id) ==
    LET act == {j \in JobIds : /\ jobs[j].playlist_id = playlist_id
                               /\ jobs[j].status \in Active}
    IN IF act = {} THEN 0
       ELSE CHOOSE j \in act : \A k \in act :
               \/ jobs[k].started_at < jobs[j].started_at
               \/ (jobs[k].started_at = jobs[j].started_at /\ k <= j)

\* a check that gives up on a job at its timeout to the minute
IsStale_at_timeout(j) ==
    /\ jobs[j].status = "pending"
    /\ now - jobs[j].started_at >= timeout_minutes(jobs[j].total)

\* a pending job older than its timeout
IsStale(j) ==
    /\ jobs[j].status = "pending"
    /\ now - jobs[j].started_at > timeout_minutes(jobs[j].total)

\* what get_active_job_for_playlist returns: a job id, or 0 for None
get_active_job_for_playlist(playlist_id) ==
    LET j == LatestActive(playlist_id)
    IN IF j = 0 \/ IsStale(j) THEN 0 ELSE j

\* sort_jobs as get_active_job_for_playlist leaves it
jobs_after_active_query(playlist_id) ==
    LET j == LatestActive(playlist_id)
    IN IF j # 0 /\ IsStale(j)
       THEN update_job(j, [status |-> "failed", error |-> ERR_TIMEOUT])
       ELSE jobs

\* a sweep that forgets the jobs still queued
recover_interrupted_jobs_in_progress ==
    [j \in JobIds |->
        IF jobs[j].status = "in_progress"
        THEN [jobs[j] EXCEPT !.status = "failed", !.error = ERR_RESTART,
                             !.completed_at = Some(now)]
        ELSE jobs[j]]

\* sort_jobs as recover_interrupted_jobs leaves it
recover_interrupted_jobs ==
    [j \in JobIds |->
        IF jobs[j].status \in Active
        THEN [jobs[j] EXCEPT !.status = "failed", !.error = ERR_RESTART,
                             !.completed_at = Some(now)]
        ELSE jobs[j]]

(***************************************************************************)
(* task_executor.py: _run_sort_job, one action per shared access.          *)
(***************************************************************************)
NewWorker ==
    [pc |-> "queued", snapshot_before |-> 0, tracks |-> <<>>, offset |-> 0,
     current_positions |-> <<>>, target_pos |-> 0, moves_made |-> 0,
     meta |-> "manual"]

\* pool threads that never come back from a job
Busy_forever == {j \in JobIds : wk[j].pc # "queued"}

Busy == {j \in JobIds : wk[j].pc \notin {"queued", "done", "dead"}}

\* cancel_event.is_set()
IsSet(j) == j \in DOMAIN running /\ running[j]

\* finally: del _running_jobs[job_id]
Unregister(j) == [k \in (DOMAIN running) \ {j} |-> running[k]]

tracks_to_move(j) ==
    calculate_moves_needed(wk[j].tracks,
        sorted_tracks(wk[j].tracks, jobs[j].sort_by, jobs[j].direction))

total_moves(j) ==
    IF jobs[j].method = "preserve" THEN tracks_to_move(j) ELSE Len(wk[j].tracks)

\* a callback that reports nothing
progress_callback_silent(j, current) == jobs

\* progress_callback(current, message)
progress_callback(j, current) ==
    IF IsSet(j) THEN jobs ELSE update_job(j, [progress |-> current])

\* history: the playlist was written by job j (by another client when j = 0);
\* every call bumps the snapshot id
WrittenBy(playlist_id, j, written) ==
    LET h == IF written /\ hist.sortJob[playlist_id] # j
             THEN [hist EXCEPT !.clean[playlist_id] = FALSE]
             ELSE hist
    IN IF j # 0 /\ IsSet(j) /\ snapshot' # snapshot
       THEN [h EXCEPT !.late[j] = @ + 1]
       ELSE h

\* an except branch that only logs
Raise_logged(j) ==
    /\ jobs' = jobs
    /\ running' = Unregister(j)
    /\ wk' = [wk EXCEPT ![j].pc = "done"]

\* the except branch of _run_sort_job, followed by finally
Raise(j) ==
    /\ jobs' = update_job(j, [status |-> "failed", error |-> ERR_EXCEPTION])
    /\ running' = Unregister(j)
    /\ wk' = [wk EXCEPT ![j].pc = "done"]

\* one iteration of the loop of sort_playlist_preserve_dates (the first one
\* preceded by the moves_needed == 0 shortcut)
PreserveStep(j) ==
    LET w  == wk[j]
        pl == jobs[j].playlist_id
        n  == Len(w.tracks)
        si == sorted_indexed(w.tracks, jobs[j].sort_by, jobs[j].direction)
        tp == w.target_pos
    IN
    IF preserve_moves_needed(w.tracks, jobs[j].sort_by, jobs[j].direction) = 0
    THEN /\ jobs' = progress_callback(j, n)
         /\ wk' = [wk EXCEPT ![j].pc = "finish"]
         /\ UNCHANGED <<remote, snapshot, running>>
    ELSE IF IsSet(j)
    THEN /\ wk' = [wk EXCEPT ![j].pc = "finish"]
         /\ UNCHANGED <<jobs, remote, snapshot, running>>
    ELSE
      LET target_orig_idx == si[tp + 1]
          current_pos == IndexOf(w.current_positions, target_orig_idx)
          nextpc == IF tp + 1 = n THEN "finish" ELSE "sort"
      IN
      IF current_pos = tp
      THEN /\ wk' = [wk EXCEPT ![j].target_pos = tp + 1, ![j].pc = nextpc]
           /\ UNCHANGED <<jobs, remote, snapshot, running>>
      ELSE IF ~RemoteReorderValid(remote[pl], current_pos, InsertBefore(tp, current_pos))
      THEN /\ Raise(j)
           /\ UNCHANGED <<remote, snapshot>>
      ELSE /\ remote' = [remote EXCEPT ![pl] =
                            RemoteReorder(@, current_pos, InsertBefore(tp, current_pos))]
           /\ snapshot' = [snapshot EXCEPT ![pl] = @ + 1]
           /\ jobs' = progress_callback(j, w.moves_made + 1)
           /\ wk' = [wk EXCEPT
                  ![j].current_positions =
                      InsertAt(PopAt(@, current_pos), tp, target_orig_idx),
                  ![j].moves_made = @ + 1,
                  ![j].target_pos = tp + 1,
                  ![j].pc = nextpc]
           /\ UNCHANGED running

\* the strategy of a preserve job
WPreserve(j) ==
    /\ phase = "up"
    /\ wk[j].pc = "sort"
    /\ jobs[j].method = "preserve"
    /\ PreserveStep(j)
    /\ hist' = WrittenBy(jobs[j].playlist_id, j, remote' # remote)
    /\ UNCHANGED <<phase, now, ops, nextOp, schedules, nextSched, sched, creq, resp>>

\* one iteration of the batch loop of sort_playlist_fast
FastStep(j) ==
    LET w  == wk[j]
        pl == jobs[j].playlist_id
        track_uris == Uris(sorted_tracks(w.tracks, jobs[j].sort_by, jobs[j].direction))
        i == w.target_pos
        batch == Slice(track_uris, i + 1, i + batch_size)
    IN
    IF i >= Len(track_uris)
    THEN /\ wk' = [wk EXCEPT ![j].pc = "finish"]
         /\ UNCHANGED <<jobs, remote, snapshot>>
    ELSE /\ remote' = [remote EXCEPT ![pl] =
                          IF i = 0 THEN RemoteItems(batch, now)
                          ELSE @ \o RemoteItems(batch, now)]
         /\ snapshot' = [snapshot EXCEPT ![pl] = @ + 1]
         /\ jobs' = progress_callback(j, i + Len(batch))
         /\ wk' = [wk EXCEPT ![j].target_pos = i + batch_size,
                             ![j].pc = IF i + batch_size >= Len(track_uris)
                                       THEN "finish" ELSE "sort"]

\* the strategy of a fast job
WFast(j) ==
    /\ phase = "up"
    /\ wk[j].pc = "sort"
    /\ jobs[j].method = "fast"
    /\ FastStep(j)
    /\ hist' = WrittenBy(jobs[j].playlist_id, j, remote' # remote)
    /\ UNCHANGED <<phase, now, running, ops, nextOp, schedules, nextSched, sched, creq, resp>>

\* whether the next step of the strategy issues a remote call
CallsRemote(j) ==
    LET w == wk[j] IN
    IF jobs[j].method = "fast" THEN w.target_pos < Len(w.tracks)
    ELSE /\ preserve_moves_needed(w.tracks, jobs[j].sort_by, jobs[j].direction) > 0
         /\ ~IsSet(j)
         /\ IndexOf(w.current_positions,
                    sorted_indexed(w.tracks, jobs[j].sort_by, jobs[j].direction)[w.target_pos + 1])
               # w.target_pos

\* a pool that starts a thread for every job submitted
WStart_unbounded(j) ==
    /\ phase = "up"
    /\ wk[j].pc = "queued"
    /\ jobs' = update_job(j, [status |-> "in_progress"])
    /\ wk' = [wk EXCEPT ![j].pc = "client"]
    /\ UNCHANGED <<phase, now, running, remote, snapshot, ops, nextOp,
                   schedules, nextSched, sched, creq, resp, hist>>

\* a pool thread takes the job: update_job(status='in_progress')
WStart(j) ==
    /\ phase = "up"
    /\ wk[j].pc = "queued"
    /\ Cardinality(Busy) < max_workers
    /\ jobs' = update_job(j, [status |-> "in_progress"])
    /\ wk' = [wk EXCEPT ![j].pc = "client"]
    /\ UNCHANGED <<phase, now, running, remote, snapshot, ops, nextOp,
                   schedules, nextSched, sched, creq, resp, hist>>

\* get_spotify_client and the snapshot_before read
WSnapshot(j) ==
    /\ phase = "up"
    /\ wk[j].pc = "client"
    /\ wk' = [wk EXCEPT ![j].pc = "fetch",
                        ![j].snapshot_before = snapshot[jobs[j].playlist_id]]
    /\ hist' = [hist EXCEPT !.sortJob[jobs[j].playlist_id] = j,
                            !.before[jobs[j].playlist_id] = Uris(remote[jobs[j].playlist_id]),
                            !.clean[jobs[j].playlist_id] = TRUE]
    /\ UNCHANGED <<phase, now, jobs, running, remote, snapshot, ops, nextOp,
                   schedules, nextSched, sched, creq, resp>>

\* one iteration of the fetch loop: the cancel check, then one page
WFetch(j) ==
    /\ phase = "up"
    /\ wk[j].pc = "fetch"
    /\ IF IsSet(j)
       THEN /\ jobs' = update_job(j, [status |-> "cancelled"])
            /\ running' = Unregister(j)
            /\ wk' = [wk EXCEPT ![j].pc = "done"]
       ELSE LET page == Slice(remote[jobs[j].playlist_id],
                              wk[j].offset + 1, wk[j].offset + batch_size)
            IN /\ wk' = [wk EXCEPT
                     ![j].tracks = @ \o page,
                     ![j].offset = IF Len(page) < batch_size THEN @ ELSE @ + batch_size,
                     ![j].pc = IF Len(page) < batch_size THEN "analyze" ELSE "fetch"]
               /\ UNCHANGED <<jobs, running>>
    /\ UNCHANGED <<phase, now, remote, snapshot, ops, nextOp,
                   schedules, nextSched, sched, creq, resp, hist>>

\* the analysis: update_job(total=total_moves)
WAnalyze(j) ==
    /\ phase = "up"
    /\ wk[j].pc = "analyze"
    /\ jobs' = update_job(j, [total |-> total_moves(j)])
    /\ wk' = [wk EXCEPT ![j].pc = "sort",
                        ![j].current_positions = [i \in 1..Len(wk[j].tracks) |-> i - 1],
                        ![j].target_pos = 0,
                        ![j].moves_made = 0]
    /\ UNCHANGED <<phase, now, running, remote, snapshot, ops, nextOp,
                   schedules, nextSched, sched, creq, resp, hist>>

\* a worker that completes without its last look at the cancel event
WFinish_unchecked(j) ==
    /\ phase = "up"
    /\ wk[j].pc = "finish"
    /\ jobs' = update_job(j, [status |-> "completed",
                              progress |-> total_moves(j),
                              total |-> total_moves(j)])
    /\ wk' = [wk EXCEPT ![j].pc = "record"]
    /\ UNCHANGED <<phase, now, running, remote, snapshot, ops, nextOp,
                   schedules, nextSched, sched, creq, resp, hist>>

\* after the strategy returned: cancelled, or completed
WFinish(j) ==
    /\ phase = "up"
    /\ wk[j].pc = "finish"
    /\ IF IsSet(j)
       THEN /\ jobs' = update_job(j, [status |-> "cancelled"])
            /\ running' = Unregister(j)
            /\ wk' = [wk EXCEPT ![j].pc = "done"]
       ELSE /\ jobs' = update_job(j, [status |-> "completed",
                                      progress |-> total_moves(j),
                                      total |-> total_moves(j)])
            /\ wk' = [wk EXCEPT ![j].pc = "record"]
            /\ UNCHANGED running
    /\ UNCHANGED <<phase, now, remote, snapshot, ops, nextOp,
                   schedules, nextSched, sched, creq, resp, hist>>

\* a remote call of the worker raises (client, snapshot, page, move, batch)
WError(j) ==
    /\ phase = "up"
    /\ wk[j].pc \in {"client", "fetch", "sort"}
    /\ wk[j].pc = "sort" => CallsRemote(j)
    /\ Raise(j)
    /\ UNCHANGED <<phase, now, remote, snapshot, ops, nextOp,
                   schedules, nextSched, sched, creq, resp, hist>>

(***************************************************************************)
(* db/operations.py                                                        *)
(***************************************************************************)
\* a sweep that keeps the entries expiring at this very instant
cleanup_expired_before(rows) == SelectSeq(rows, LAMBDA o : o.expires_at >= now)

\* DELETE FROM playlist_operations WHERE expires_at <= now
cleanup_expired(rows) == SelectSeq(rows, LAMBDA o : o.expires_at > now)

\* the row record_operation inserts for a sort (job: the job that wrote it)
SortOperation(j, snapshot_after, changes_made) ==
    [id |-> nextOp, playlist_id |-> jobs[j].playlist_id, user_id |-> jobs[j].user_id,
     op_type |-> "sort_reorder", snapshot_before |-> wk[j].snapshot_before,
     snapshot_after |-> snapshot_after, original_order |-> Uris(wk[j].tracks),
     changes_made |-> changes_made, created_at |-> now,
     expires_at |-> now + ExpiryMinutes, undone |-> FALSE,
     source |-> wk[j].meta, job |-> j]

\* a lookup that takes the entries of every owner of the playlist
Undoable_any_owner(o, playlist_id, user_id) ==
    /\ o.playlist_id = playlist_id
    /\ ~o.undone /\ o.expires_at > now /\ o.changes_made

\* the WHERE clause of get_latest_operation
Undoable(o, playlist_id, user_id) ==
    /\ o.playlist_id = playlist_id /\ o.user_id = user_id
    /\ ~o.undone /\ o.expires_at > now /\ o.changes_made

\* get_latest_operation: the position in rows of the newest undoable entry,
\* or 0; created_at grows with the id
get_latest_operation(rows, playlist_id, user_id) ==
    LET c == {i \in 1..Len(rows) : Undoable(rows[i], playlist_id, user_id)}
    IN IF c = {} THEN 0
       ELSE CHOOSE i \in c : \A k \in c :
               \/ rows[k].created_at < rows[i].created_at
               \/ (rows[k].created_at = rows[i].created_at /\ k <= i)

\* an undo that leaves the flag as it is
mark_undone_never(rows, i) == rows

\* UPDATE playlist_operations SET undone = 1 WHERE id = ?
mark_undone(rows, i) == [rows EXCEPT ![i].undone = TRUE]

\* limit=10 of the history route
HistoryLimit == 10

\* ORDER BY created_at DESC of the positions in c (the later row first among
\* rows of equal created_at)
RECURSIVE ByCreatedDesc(_, _)
ByCreatedDesc(rows, c) ==
    IF c = {} THEN <<>>
    ELSE LET i == CHOOSE i \in c : \A k \in c :
                     \/ rows[k].created_at < rows[i].created_at
                     \/ (rows[k].created_at = rows[i].created_at /\ k <= i)
         IN <<rows[i]>> \o ByCreatedDesc(rows, c \ {i})

\* get_history(playlist_id, user_id, limit)
get_history(rows, playlist_id, user_id, limit) ==
    Slice(ByCreatedDesc(rows, {i \in 1..Len(rows) :
                                  /\ rows[i].playlist_id = playlist_id
                                  /\ rows[i].user_id = user_id
                                  /\ rows[i].expires_at > now}), 1, limit)

\* changes_made of the entry of a sort
changes_made_always(j) == TRUE

changes_made(j) == tracks_to_move(j) > 0

\* the undo record: snapshot_after read, cleanup_expired, record_operation
WRecord(j) ==
    /\ phase = "up"
    /\ wk[j].pc = "record"
    /\ ops' = Append(cleanup_expired(ops),
                     SortOperation(j, snapshot[jobs[j].playlist_id], changes_made(j)))
    /\ nextOp' = nextOp + 1
    /\ running' = Unregister(j)
    /\ wk' = [wk EXCEPT ![j].pc = "done"]
    /\ UNCHANGED <<phase, now, jobs, remote, snapshot,
                   schedules, nextSched, sched, creq, resp, hist>>

\* the snapshot_after read raises: logged, nothing recorded
WRecordFail(j) ==
    /\ phase = "up"
    /\ wk[j].pc = "record"
    /\ running' = Unregister(j)
    /\ wk' = [wk EXCEPT ![j].pc = "done"]
    /\ UNCHANGED <<phase, now, jobs, remote, snapshot, ops, nextOp,
                   schedules, nextSched, sched, creq, resp, hist>>

(***************************************************************************)
(* routes/sort.py.  The handlers run on the event loop one at a time; a    *)
(* handler is one action unless a worker or the scheduler thread can act   *)
(* between two of its accesses with a different outcome.                   *)
(***************************************************************************)
\* a limit check that admits a user who is exactly at the limit
LimitReached_above(active_count) == active_count > MAX_CONCURRENT_JOBS

\* if active_count >= MAX_CONCURRENT_JOBS
LimitReached(active_count) == active_count >= MAX_CONCURRENT_JOBS

\* a submission that never finds the playlist busy
AlreadyActive_never(active_job) == FALSE

\* if active_job: (0 stands for None)
AlreadyActive(active_job) == active_job # 0

\* _running_jobs[job_id] = cancel_event
Register(j) == [k \in (DOMAIN running) \cup {j} |-> IF k = j THEN FALSE ELSE running[k]]

\* the answer to a request: the handler, its caller, the status code and the
\* job the body names (0: none)
Response(kind, user_id, playlist_id, code, job_id) ==
    [kind |-> kind, user_id |-> user_id, playlist_id |-> playlist_id,
     code |-> code, job_id |-> job_id]

\* POST /playlists/{playlist_id}/sort.  The 429 raised inside the try block
\* is caught by its except Exception and answered as a 500.
start_sort(user_id, playlist_id, sort_by, direction, method) ==
    /\ phase = "up"
    /\ creq = 0
    /\ LET active_count == get_user_active_job_count(user_id)
           active_job == get_active_job_for_playlist(playlist_id)
           new == Len(jobs) + 1
       IN
       IF LimitReached(active_count)
       THEN /\ jobs' = jobs
            /\ wk' = wk
            /\ running' = running
            /\ resp' = Response("start_sort", user_id, playlist_id, 500, 0)
       ELSE IF AlreadyActive(active_job)
       THEN /\ jobs' = jobs_after_active_query(playlist_id)
            /\ wk' = wk
            /\ running' = running
            /\ resp' = Response("start_sort", user_id, playlist_id, 200, active_job)
       ELSE /\ Len(jobs) < MaxJobs
            /\ jobs' = Append(jobs_after_active_query(playlist_id),
                              NewJob(playlist_id, user_id, sort_by, direction, method,
                                     Len(remote[playlist_id])))
            /\ wk' = Append(wk, NewWorker)
            /\ running' = Register(new)
            /\ resp' = Response("start_sort", user_id, playlist_id, 200, new)
    /\ UNCHANGED <<phase, now, remote, snapshot, ops, nextOp, schedules, nextSched, sched,
                   creq, hist>>

\* GET /playlists/{playlist_id}/sort/active
get_active_sort(user_id, playlist_id) ==
    /\ phase = "up"
    /\ creq = 0
    /\ jobs' = jobs_after_active_query(playlist_id)
    /\ resp' = LET a == get_active_job_for_playlist(playlist_id)
               IN Response("get_active_sort", user_id, playlist_id, 200,
                           IF a # 0 /\ jobs[a].user_id = user_id THEN a ELSE 0)
    /\ UNCHANGED <<phase, now, wk, running, remote, snapshot, ops, nextOp,
                   schedules, nextSched, sched, creq, hist>>

\* DELETE /playlists/{playlist_id}/sort/{job_id}, up to its status check
cancel_sort_read(user_id, j) ==
    /\ phase = "up"
    /\ creq = 0
    /\ j \in JobIds
    /\ jobs[j].user_id = user_id
    /\ IF jobs[j].status \notin Active
       THEN /\ creq' = 0
            /\ resp' = Response("cancel_sort", user_id, jobs[j].playlist_id, 200, 0)
       ELSE /\ creq' = j
            /\ resp' = resp
    /\ UNCHANGED <<phase, now, jobs, wk, running, remote, snapshot, ops, nextOp,
                   schedules, nextSched, sched, hist>>

\* ... and from there: cancel_sort_job, then SortJobService.cancel_job
cancel_sort_write ==
    /\ phase = "up"
    /\ creq # 0
    /\ running' = IF creq \in DOMAIN running
                  THEN [running EXCEPT ![creq] = TRUE] ELSE running
    /\ jobs' = update_job(creq, [status |-> "cancelled"])
    /\ resp' = Response("cancel_sort", jobs[creq].user_id, jobs[creq].playlist_id, 200, creq)
    /\ creq' = 0
    /\ UNCHANGED <<phase, now, wk, remote, snapshot, ops, nextOp,
                   schedules, nextSched, sched, hist>>

(***************************************************************************)
(* routes/playlists.py: undo_last_operation.                               *)
(***************************************************************************)
\* an undo that stops after its first remote call
UndoRest_none(original_order) == <<>>

\* rest = original_order[100:]
UndoRest(original_order) == Slice(original_order, batch_size + 1, Len(original_order))

\* the remote calls of a sort_reorder undo (playlist_replace_items with the
\* first batch, playlist_add_items with the rest): the playlist they leave
UndoReplay(original_order) ==
    RemoteItems(Slice(original_order, 1, batch_size), now)
        \o RemoteItems(UndoRest(original_order), now)

\* ... and the number of calls: one replace, one add per further batch
UndoCalls(original_order) ==
    1 + (Len(UndoRest(original_order)) + batch_size - 1) \div batch_size

\* an undo that skips the snapshot comparison
Conflict_never(current_snapshot, expected_snapshot) == FALSE

\* current_snapshot != expected_snapshot (both are non-empty strings)
Conflict(current_snapshot, expected_snapshot) == current_snapshot # expected_snapshot

\* the entries of removed_items: what remove_duplicates keeps of an item
RemovedItem(uri, position) == [uri |-> uri, position |-> position]

\* removed_items of a removal: uri and position of every position removed,
\* in ascending position order (sorted(set(positions_to_remove)))
RECURSIVE RemovedItems(_, _, _)
RemovedItems(current_items, positions, pos) ==
    IF pos >= Len(current_items) THEN <<>>
    ELSE (IF pos \in positions
          THEN <<RemovedItem(current_items[pos + 1].id, pos)>>
          ELSE <<>>) \o RemovedItems(current_items, positions, pos + 1)

\* DELETE playlists/{id}/tracks with positions: the items at these positions
\* leave the playlist, the others keep their order
RemoteDelete(seq, positions) ==
    LET keep(i) == (i - 1) \notin positions
        F[i \in 0..Len(seq)] ==
            IF i = 0 THEN <<>>
            ELSE IF keep(i) THEN Append(F[i - 1], seq[i]) ELSE F[i - 1]
    IN F[Len(seq)]

\* the row record_operation inserts for a removal (changes_made defaults to
\* True; no job wrote it)
DuplicatesOperation(user_id, playlist_id, snapshot_before, snapshot_after, removed_items) ==
    [id |-> nextOp, playlist_id |-> playlist_id, user_id |-> user_id,
     op_type |-> "duplicates_remove", snapshot_before |-> snapshot_before,
     snapshot_after |-> snapshot_after, original_order |-> <<>>,
     changes_made |-> TRUE, created_at |-> now,
     expires_at |-> now + ExpiryMinutes, undone |-> FALSE,
     source |-> "manual", job |-> 0, removed_items |-> removed_items]

\* POST /playlists/{playlist_id}/duplicates/remove with the occurrences at
\* positions (each checked against the uri at that position); recorded: the
\* history write succeeded (its failure is logged and swallowed)
remove_duplicates(user_id, playlist_id, positions, recorded) ==
    /\ phase = "up"
    /\ creq = 0
    /\ nextOp <= MaxOps
    /\ LET current_items == remote[playlist_id]
           valid == {pos \in positions : pos < Len(current_items)}
           removed_items == RemovedItems(current_items, valid, 0)
       IN
       IF valid = {}
       THEN /\ UNCHANGED <<remote, snapshot, ops, nextOp, hist>>
            /\ resp' = Response("remove_duplicates", user_id, playlist_id, 200, 0)
       ELSE /\ remote' = [remote EXCEPT ![playlist_id] = RemoteDelete(@, valid)]
            /\ snapshot' = [snapshot EXCEPT ![playlist_id] = @ + 1]
            /\ IF recorded
               THEN /\ ops' = Append(cleanup_expired(ops),
                                     DuplicatesOperation(user_id, playlist_id,
                                         snapshot[playlist_id], snapshot'[playlist_id],
                                         removed_items))
                    /\ nextOp' = nextOp + 1
               ELSE UNCHANGED <<ops, nextOp>>
            /\ hist' = [hist EXCEPT !.before[playlist_id] = Uris(current_items),
                                    !.sortJob[playlist_id] = 0,
                                    !.clean[playlist_id] = TRUE]
            /\ resp' = Response("remove_duplicates", user_id, playlist_id, 200, 0)
    /\ UNCHANGED <<phase, now, jobs, wk, running, schedules, nextSched, sched, creq>>

\* an undo that reinserts from the highest position down
ByPosition_descending(removed_items) ==
    [i \in 1..Len(removed_items) |-> removed_items[Len(removed_items) + 1 - i]]

\* sorted(removed_items, key=position): a stable insertion sort
ByPosition(removed_items) ==
    LET Ins(s, x) ==
            LET k == Cardinality({i \in 1..Len(s) : s[i].position <= x.position})
            IN InsertAt(s, k, x)
        F[i \in 0..Len(removed_items)] ==
            IF i = 0 THEN <<>> ELSE Ins(F[i - 1], removed_items[i])
    IN F[Len(removed_items)]

\* playlist_add_items(playlist_id, [uri], position=position), one call per
\* entry in the order given; the remote stamps the item with the time of the
\* call and appends when the position is past the end
RECURSIVE UndoReinsert(_, _)
UndoReinsert(items, removed_items) ==
    IF removed_items = <<>> THEN items
    ELSE UndoReinsert(InsertAt(items, Min2(Head(removed_items).position, Len(items)),
                               Item(Head(removed_items).uri, Some(now))),
                      Tail(removed_items))

\* POST /playlists/{playlist_id}/undo; the answer names the job whose entry
\* was selected
undo_last_operation(user_id, playlist_id) ==
    /\ phase = "up"
    /\ creq = 0
    /\ LET rows == cleanup_expired(ops)
           i == get_latest_operation(rows, playlist_id, user_id)
       IN
       IF i = 0
       THEN /\ ops' = rows
            /\ UNCHANGED <<remote, snapshot>>
            /\ resp' = Response("undo", user_id, playlist_id, 404, 0)
       ELSE IF Conflict(snapshot[playlist_id], rows[i].snapshot_after)
       THEN /\ ops' = rows
            /\ UNCHANGED <<remote, snapshot>>
            /\ resp' = Response("undo", user_id, playlist_id, 409, rows[i].job)
       ELSE IF rows[i].op_type = "duplicates_remove"
       THEN IF rows[i].removed_items = <<>>
            THEN /\ ops' = rows
                 /\ UNCHANGED <<remote, snapshot>>
                 /\ resp' = Response("undo", user_id, playlist_id, 400, 0)
            ELSE /\ remote' = [remote EXCEPT ![playlist_id] =
                                  UndoReinsert(@, ByPosition(rows[i].removed_items))]
                 /\ snapshot' = [snapshot EXCEPT ![playlist_id] =
                                    @ + Len(rows[i].removed_items)]
                 /\ ops' = mark_undone(rows, i)
                 /\ resp' = Response("undo", user_id, playlist_id, 200, 0)
       ELSE IF rows[i].original_order = <<>>
       THEN /\ ops' = rows
            /\ UNCHANGED <<remote, snapshot>>
            /\ resp' = Response("undo", user_id, playlist_id, 400, rows[i].job)
       ELSE /\ remote' = [remote EXCEPT ![playlist_id] = UndoReplay(rows[i].original_order)]
            /\ snapshot' = [snapshot EXCEPT ![playlist_id] =
                               @ + UndoCalls(rows[i].original_order)]
            /\ ops' = mark_undone(rows, i)
            /\ resp' = Response("undo", user_id, playlist_id, 200, rows[i].job)
    /\ hist' = WrittenBy(playlist_id, 0, snapshot' # snapshot)
    /\ UNCHANGED <<phase, now, jobs, wk, running, nextOp, schedules, nextSched, sched, creq>>

\* can_undo of an entry of the history answer; current_snapshot is None when
\* the live snapshot id could not be read
can_undo(entry, current_snapshot) ==
    /\ ~entry.undone
    /\ current_snapshot # None
    /\ entry.snapshot_after = current_snapshot[1]

\* GET /playlists/{playlist_id}/history: cleanup_expired, then get_history
\* (the answer lists get_history of the swept log)
get_playlist_history(user_id, playlist_id) ==
    /\ phase = "up"
    /\ creq = 0
    /\ ops' = cleanup_expired(ops)
    /\ resp' = Response("history", user_id, playlist_id, 200, 0)
    /\ UNCHANGED <<phase, now, jobs, wk, running, remote, snapshot, nextOp,
                   schedules, nextSched, sched, creq, hist>>

(***************************************************************************)
(* The environment: other clients of the remote, the clock.                *)
(***************************************************************************)
\* another client removes the first item of the playlist
ExternalWrite(playlist_id) ==
    /\ hist.external < MaxExternal
    /\ remote[playlist_id] # <<>>
    /\ remote' = [remote EXCEPT ![playlist_id] = Tail(@)]
    /\ snapshot' = [snapshot EXCEPT ![playlist_id] = @ + 1]
    /\ hist' = [hist EXCEPT !.external = @ + 1, !.clean[playlist_id] = FALSE]
    /\ UNCHANGED <<phase, now, jobs, wk, running, ops, nextOp, schedules, nextSched, sched,
                   creq, resp>>

\* time passes: long enough for a pending job of a small playlist to go stale
Tick ==
    /\ now < StartTime + MaxTicks * (timeout_minutes(0) + 1)
    /\ now' = now + timeout_minutes(0) + 1
    /\ UNCHANGED <<phase, jobs, wk, running, remote, snapshot, ops, nextOp,
                   schedules, nextSched, sched, creq, resp, hist>>

(***************************************************************************)
(* db/schedules.py and services/scheduler_service.py.  The clock counts    *)
(* minutes from a Monday 00:00 UTC.                                        *)
(***************************************************************************)
DueLimit == 10

\* the calendar of datetime: the clock's minute 0 is Monday 2024-01-01 00:00
EpochYear == 2024

IsLeap(y) == (y % 4 = 0 /\ y % 100 # 0) \/ y % 400 = 0

DaysInMonth(y, m) ==
    IF m = 2 THEN (IF IsLeap(y) THEN 29 ELSE 28)
    ELSE IF m \in {4, 6, 9, 11} THEN 30 ELSE 31

DaysInYear(y) == IF IsLeap(y) THEN 366 ELSE 365

\* days from the first day of the epoch year to the first day of year y
RECURSIVE DaysBeforeYear(_)
DaysBeforeYear(y) ==
    IF y = EpochYear THEN 0
    ELSE IF y > EpochYear THEN DaysBeforeYear(y - 1) + DaysInYear(y - 1)
    ELSE DaysBeforeYear(y + 1) - DaysInYear(y)

\* days from the first day of year y to the first day of its month m
RECURSIVE DaysBeforeMonth(_, _)
DaysBeforeMonth(y, m) ==
    IF m = 1 THEN 0 ELSE DaysBeforeMonth(y, m - 1) + DaysInMonth(y, m - 1)

\* the datetime (year, month, day, hour, minute) of an instant of the clock
datetime(t) ==
    LET d == t \div 1440
        y == CHOOSE y \in (EpochYear - 1)..(EpochYear + 2) :
                DaysBeforeYear(y) <= d /\ d < DaysBeforeYear(y + 1)
        r == d - DaysBeforeYear(y)
        m == CHOOSE m \in 1..12 :
                /\ DaysBeforeMonth(y, m) <= r
                /\ r < DaysBeforeMonth(y, m) + DaysInMonth(y, m)
    IN [year |-> y, month |-> m, day |-> r - DaysBeforeMonth(y, m) + 1,
        hour |-> (t % 1440) \div 60, minute |-> t % 60]

\* ... and the instant of a datetime
timestamp(dt) ==
    (DaysBeforeYear(dt.year) + DaysBeforeMonth(dt.year, dt.month) + dt.day - 1) * 1440
        + dt.hour * 60 + dt.minute

\* datetime.weekday(): Monday is 0
weekday(dt) == (timestamp(dt) \div 1440) % 7

\* dow_map.get(dow, 0)
dow_map(dow) ==
    CASE dow = "mon" -> 0 [] dow = "tue" -> 1 [] dow = "wed" -> 2 [] dow = "thu" -> 3
      [] dow = "fri" -> 4 [] dow = "sat" -> 5 [] dow = "sun" -> 6 [] OTHER -> 0

\* a recurrence that never moves to the next day
NextAnchor_same_day(target_local, base_local, days) == target_local

\* target_local += timedelta(days=...) when target_local <= base_local
NextAnchor(target_local, base_local, days) ==
    IF timestamp(target_local) <= timestamp(base_local)
    THEN datetime(timestamp(target_local) + days * 1440)
    ELSE target_local

\* a weekly recurrence that stays on the weekday of today
days_ahead_today(target_local, wanted) == 0

\* days_ahead of the weekly branch
days_ahead(target_local, wanted) == (wanted - weekday(target_local)) % 7

\* a monthly recurrence that takes the requested day as it is
MonthDay_unclamped(dom) == dom

\* day = max(1, min(dom, 28))
MonthDay(dom) == IF dom > 28 THEN 28 ELSE IF dom < 1 THEN 1 ELSE dom

\* the monthly branch: this month's day at the hour, or next month's (the
\* day is at most 28, so that replace() never raises)
MonthlyCandidate(target_local, base_local, dom) ==
    LET candidate == [target_local EXCEPT !.day = MonthDay(dom)]
    IN IF timestamp(candidate) <= timestamp(base_local)
       THEN IF candidate.month = 12
            THEN [candidate EXCEPT !.year = @ + 1, !.month = 1]
            ELSE [candidate EXCEPT !.month = @ + 1]
       ELSE candidate

\* _compute_next_run(schedule, from_time)
compute_next_run(s, base) ==
    LET offset_minutes == s.timezone_offset_minutes
        base_local == datetime(base + offset_minutes)
        target_local == [base_local EXCEPT !.minute = 0, !.hour = s.hour_of_day]
        local ==
          CASE s.schedule_type = "daily" -> NextAnchor(target_local, base_local, 1)
            [] s.schedule_type = "weekly" ->
                 IF days_ahead(target_local, dow_map(s.day_of_week)) = 0
                 THEN NextAnchor(target_local, base_local, 7)
                 ELSE datetime(timestamp(target_local)
                         + days_ahead(target_local, dow_map(s.day_of_week)) * 1440)
            [] s.schedule_type = "monthly" ->
                 MonthlyCandidate(target_local, base_local, s.day_of_month)
            [] OTHER ->
                 datetime(timestamp(base_local)
                    + (IF s.frequency_minutes = 0 THEN 1440 ELSE s.frequency_minutes))
    IN timestamp(local) - offset_minutes

\* the row create_schedule inserts for a sort
NewSchedule(id, playlist_id, user_id, sort_by, direction, method, first_run_at) ==
    [id |-> id, playlist_id |-> playlist_id, user_id |-> user_id,
     action_type |-> "sort", sort_by |-> sort_by, direction |-> direction,
     method |-> method, schedule_type |-> "daily", hour_of_day |-> 9,
     day_of_week |-> "mon", day_of_month |-> 1, timezone_offset_minutes |-> 0,
     frequency_minutes |-> 1440, enabled |-> TRUE,
     next_run_at |-> first_run_at, last_run_at |-> None, status |-> "scheduled",
     last_error |-> None]

\* a query that takes disabled schedules too
Due_disabled(s) == s.next_run_at # None /\ s.next_run_at[1] <= now

\* WHERE enabled = 1 AND next_run_at IS NOT NULL AND next_run_at <= ?
Due(s) == s.enabled /\ s.next_run_at # None /\ s.next_run_at[1] <= now

\* ORDER BY next_run_at ASC of the positions in c (rows of equal next_run_at
\* in row order)
ByNextRun(c) ==
    LET Before(i) ==
            {k \in c : \/ schedules[k].next_run_at[1] < schedules[i].next_run_at[1]
                       \/ (schedules[k].next_run_at[1] = schedules[i].next_run_at[1] /\ k < i)}
    IN [p \in 1..Cardinality(c) |->
           schedules[CHOOSE i \in c : Cardinality(Before(i)) = p - 1]]

\* due_schedules(now, limit)
due_schedules(limit) ==
    Slice(ByNextRun({i \in 1..Len(schedules) : Due(schedules[i])}), 1, limit)

\* a mark_run that keeps next_run_at
NextRunAfter_kept(s) == s.next_run_at

\* next_run of mark_run for a schedule that exists
NextRunAfter(s) == Some(compute_next_run(s, now))

\* mark_run(schedule_id, user_id, frequency_minutes, success, error)
mark_run(schedule_id, user_id, success, error) ==
    [i \in 1..Len(schedules) |->
        IF schedules[i].id = schedule_id /\ schedules[i].user_id = user_id
        THEN [schedules[i] EXCEPT !.last_run_at = Some(now),
                                  !.next_run_at = NextRunAfter(schedules[i]),
                                  !.status = IF success THEN "ok" ELSE "failed",
                                  !.last_error = error]
        ELSE schedules[i]]

\* a tick that ends with its first schedule
SchedAfter_abort == SchedIdle

\* what the scheduler thread does after a schedule: the next one, or sleep
SchedAfter ==
    IF Len(sched.due) > 1 THEN [pc |-> "run", due |-> Tail(sched.due)] ELSE SchedIdle

\* if active and active.get("user_id") == user_id
SkipScheduled(active, user_id) == active # 0 /\ jobs[active].user_id = user_id

\* run_due: the scheduler thread wakes up and reads the due schedules
run_due ==
    /\ phase = "up"
    /\ sched.pc = "sleep"
    /\ due_schedules(DueLimit) # <<>>
    /\ sched' = [pc |-> "run", due |-> due_schedules(DueLimit)]
    /\ UNCHANGED <<phase, now, jobs, wk, running, remote, snapshot, ops, nextOp,
                   schedules, nextSched, creq, resp, hist>>

\* _run_sort_schedule up to the skip: the active-job query
run_sort_schedule_check ==
    /\ phase = "up"
    /\ sched.pc = "run"
    /\ Head(sched.due).action_type = "sort"
    /\ LET s == Head(sched.due)
           active == get_active_job_for_playlist(s.playlist_id)
       IN /\ jobs' = jobs_after_active_query(s.playlist_id)
          /\ IF SkipScheduled(active, s.user_id)
             THEN /\ schedules' = mark_run(s.id, s.user_id, TRUE, None)
                  /\ sched' = SchedAfter
             ELSE /\ schedules' = schedules
                  /\ sched' = [sched EXCEPT !.pc = "create"]
    /\ UNCHANGED <<phase, now, nextSched, wk, running, remote, snapshot, ops, nextOp,
                   creq, resp, hist>>

\* ... and from there: the count, create_job, start_sort_job, mark_run (the
\* job table holds MaxJobs rows, and one more for a scheduled job whose
\* owner has MAX_CONCURRENT_JOBS active jobs)
run_sort_schedule_create ==
    /\ phase = "up"
    /\ sched.pc = "create"
    /\ Len(jobs) < MaxJobs
           + (IF get_user_active_job_count(Head(sched.due).user_id) >= MAX_CONCURRENT_JOBS
              THEN 1 ELSE 0)
    /\ LET s == Head(sched.due)
       IN /\ jobs' = Append(jobs, NewJob(s.playlist_id, s.user_id, s.sort_by,
                                         s.direction, s.method, Len(remote[s.playlist_id])))
          /\ wk' = Append(wk, [NewWorker EXCEPT !.meta = "scheduled"])
          /\ running' = Register(Len(jobs) + 1)
          /\ schedules' = mark_run(s.id, s.user_id, TRUE, None)
    /\ sched' = SchedAfter
    /\ UNCHANGED <<phase, now, nextSched, remote, snapshot, ops, nextOp, creq, resp, hist>>

\* ... or the client or the count raises: mark_run(success=False)
run_sort_schedule_fail ==
    /\ phase = "up"
    /\ sched.pc = "create"
    /\ schedules' = mark_run(Head(sched.due).id, Head(sched.due).user_id, FALSE, Some(ERR_EXCEPTION))
    /\ sched' = SchedAfter
    /\ UNCHANGED <<phase, now, nextSched, jobs, wk, running, remote, snapshot, ops, nextOp,
                   creq, resp, hist>>

\* _run_schedule for cache_clear: CacheService.clear_expired() returns or
\* raises, then mark_run
run_cache_schedule(success) ==
    /\ phase = "up"
    /\ sched.pc = "run"
    /\ Head(sched.due).action_type = "cache_clear"
    /\ schedules' = mark_run(Head(sched.due).id, Head(sched.due).user_id, success,
                             IF success THEN None ELSE Some(ERR_EXCEPTION))
    /\ sched' = SchedAfter
    /\ UNCHANGED <<phase, now, nextSched, jobs, wk, running, remote, snapshot, ops,
                   nextOp, creq, resp, hist>>

(***************************************************************************)
(* main.py: lifespan.  A crash ends every thread of the process; the rows  *)
(* of the database stay.                                                   *)
(***************************************************************************)
Crash ==
    /\ phase = "up"
    /\ hist.crashes < MaxCrashes
    /\ phase' = "down"
    /\ wk' = [j \in JobIds |-> [wk[j] EXCEPT !.pc = "dead"]]
    /\ running' = <<>>
    /\ sched' = SchedIdle
    /\ creq' = 0
    /\ hist' = [hist EXCEPT !.crashes = @ + 1, !.preCrash = jobs]
    /\ UNCHANGED <<now, jobs, remote, snapshot, ops, nextOp, schedules, nextSched, resp>>

\* startup: SortJobService.recover_interrupted_jobs()
Recover ==
    /\ phase = "down"
    /\ phase' = "recovered"
    /\ jobs' = recover_interrupted_jobs
    /\ UNCHANGED <<now, wk, running, remote, snapshot, ops, nextOp, schedules, nextSched,
                   sched, creq, resp, hist>>

\* startup: scheduler.start(), then the application serves
StartScheduler ==
    /\ phase = "recovered"
    /\ phase' = "up"
    /\ UNCHANGED <<now, jobs, wk, running, remote, snapshot, ops, nextOp, schedules, nextSched,
                   sched, creq, resp, hist>>

(***************************************************************************)
(* The specifications.  All start from a running process with empty        *)
(* tables; they differ in the playlists, the schedules and the actors.     *)
(***************************************************************************)
InitWith(remote0, schedules0) ==
    /\ phase = "up"
    /\ now = StartTime
    /\ jobs = <<>>
    /\ wk = <<>>
    /\ running = <<>>
    /\ remote = remote0
    /\ snapshot = [p \in Playlists |-> 1]
    /\ ops = <<>>
    /\ nextOp = 1
    /\ schedules = schedules0
    /\ nextSched = Len(schedules0)
    /\ sched = SchedIdle
    /\ creq = 0
    /\ resp = NoResp
    /\ hist = NoHist

\* p1 holds two items out of title order, p2 one item
TwoPlaylists ==
    [p \in Playlists |-> IF p = "p1" THEN <<Item(2, Some(1)), Item(3, None)>>
                         ELSE <<Item(4, Some(1))>>]

\* u2 has a daily fast sort of p1, due now
OneSchedule == <<NewSchedule(1, "p1", "u2", "title", "asc", "fast", Some(StartTime))>>

Worker(j) ==
    \/ WStart(j) \/ WSnapshot(j) \/ WFetch(j) \/ WAnalyze(j)
    \/ WPreserve(j) \/ WFast(j) \/ WFinish(j) \/ WRecord(j)
    \/ WRecordFail(j) \/ WError(j)

Scheduler ==
    \/ run_due
    \/ run_sort_schedule_check
    \/ run_sort_schedule_create
    \/ run_sort_schedule_fail

(***************************************************************************)
(* SpecAdmit: submissions of two users for two playlists, the workers and  *)
(* the clock.                                                              *)
(***************************************************************************)
InitAdmit == InitWith(TwoPlaylists, <<>>)

NextAdmit ==
    \/ \E u \in Users, p \in Playlists, m \in Methods : start_sort(u, p, "title", "asc", m)
    \/ \E j \in JobIds : Worker(j)
    \/ Tick

SpecAdmit == InitAdmit /\ [][NextAdmit]_vars

(***************************************************************************)
(* Spec: submissions and status queries for p1, cancel requests, the       *)
(* workers, the scheduler thread and the clock, in any interleaving.       *)
(***************************************************************************)
Init == InitWith(TwoPlaylists, OneSchedule)

Next ==
    \/ start_sort("u1", "p1", "title", "asc", "preserve")
    \/ get_active_sort("u1", "p1")
    \/ \E j \in JobIds : cancel_sort_read(jobs[j].user_id, j)
    \/ cancel_sort_write
    \/ \E j \in JobIds : Worker(j)
    \/ Scheduler
    \/ Tick

Spec == Init /\ [][Next]_vars

(***************************************************************************)
(* SpecBoot: submissions, the workers, the scheduler thread and a restart  *)
(* of the process.                                                         *)
(***************************************************************************)
NextBoot ==
    \/ \E p \in Playlists : start_sort("u1", p, "title", "asc", "preserve")
    \/ \E j \in JobIds : Worker(j)
    \/ Scheduler
    \/ Crash
    \/ Recover
    \/ StartScheduler

SpecBoot == Init /\ [][NextBoot]_vars

(***************************************************************************)
(* SpecUndo: one user sorts and undoes one playlist while another client   *)
(* may write to it.                                                        *)
(***************************************************************************)
UndoItems == {Item(1, Some(2)), Item(2, Some(1)), Item(3, None)}

\* every list of distinct items, the empty one included
UndoLists == {t \in UNION {[1..n -> UndoItems] : n \in 0..MaxLen} : IsDistinct(t)}

InitUndo ==
    \E t \in UndoLists :
        InitWith([p \in Playlists |-> IF p = "p1" THEN t ELSE <<>>], <<>>)

NextUndo ==
    \/ \E d \in Directions, m \in Methods : start_sort("u1", "p1", "title", d, m)
    \/ \E j \in JobIds : Worker(j)
    \/ undo_last_operation("u1", "p1")
    \/ ExternalWrite("p1")

SpecUndo == InitUndo /\ [][NextUndo]_vars

(***************************************************************************)
(* SpecLog: the operation log alone.  The log starts with up to MaxOps     *)
(* rows as record_operation (with any expires_days) and mark_undone can    *)
(* have left them: of two users and two playlists, undone or not, with or  *)
(* without changes, already expired, expiring at the next step of the      *)
(* clock or later, created in row order or not.                            *)
(***************************************************************************)
\* the order an undo of an initial row restores
LogOrder(playlist_id) == IF playlist_id = "p1" THEN <<3, 2, 1>> ELSE <<4>>

LogPlaylists ==
    [p \in Playlists |-> IF p = "p1" THEN <<Item(1, Some(2)), Item(2, Some(1)), Item(3, None)>>
                         ELSE <<Item(4, Some(1))>>]

LogRows ==
    [playlist_id : Playlists, user_id : Users, undone : BOOLEAN,
     changes_made : BOOLEAN, created_at : {1, 2},
     expires_at : {StartTime, StartTime + timeout_minutes(0) + 1,
                   StartTime + ExpiryMinutes}]

\* the row of playlist_operations with the given id and columns
LogEntry(id, r) ==
    [id |-> id, playlist_id |-> r.playlist_id, user_id |-> r.user_id,
     op_type |-> "sort_reorder", snapshot_before |-> 1, snapshot_after |-> 1,
     original_order |-> LogOrder(r.playlist_id), changes_made |-> r.changes_made,
     created_at |-> r.created_at, expires_at |-> r.expires_at,
     undone |-> r.undone, source |-> "manual", job |-> 0]

InitLog ==
    /\ \E n \in 0..MaxOps : \E log \in [1..n -> LogRows] :
          /\ ops = [i \in 1..n |-> LogEntry(i, log[i])]
          /\ nextOp = n + 1
    /\ phase = "up"
    /\ now = StartTime
    /\ jobs = <<>>
    /\ wk = <<>>
    /\ running = <<>>
    /\ remote = LogPlaylists
    /\ snapshot = [p \in Playlists |-> 1]
    /\ schedules = <<>> /\ nextSched = 0
    /\ sched = SchedIdle
    /\ creq = 0
    /\ resp = NoResp
    /\ hist = NoHist

NextLog ==
    \/ \E u \in Users, p \in Playlists : undo_last_operation(u, p)
    \/ \E u \in Users, p \in Playlists : get_playlist_history(u, p)
    \/ Tick

SpecLog == InitLog /\ [][NextLog]_vars

(***************************************************************************)
(* SpecNextRun: one cache_clear schedule of every recurrence, due at the   *)
(* start or three days overdue, at instants around the anchors, the ends   *)
(* of months and the end of the year; the scheduler dispatches it.         *)
(***************************************************************************)
CACHE_GLOBAL_PLAYLIST_ID == "__cache_global__"

\* days of 2024: 1 to 7, 28, 29 and 31 January, 29 February, 1, 28 and 31
\* December
NextRunDays == (0..6) \cup {27, 28, 30, 59, 335, 362, 365}

\* 00:00, 08:59, 09:00, 09:01, 23:00, 23:59
NextRunTimes == {0, 539, 540, 541, 1380, 1439}

\* the recurrence params: hours 0, 9 and 23; offsets UTC-12, UTC, UTC+5:30
\* and UTC+14; a parameter the recurrence type does not read has one value
Recurrences ==
    {r \in [schedule_type : {"daily", "weekly", "monthly", "interval"},
            hour_of_day : {0, 9, 23},
            day_of_week : {"mon", "tue", "wed", "thu", "fri", "sat", "sun"},
            day_of_month : {1, 15, 28, 29, 31},
            timezone_offset_minutes : {-720, 0, 330, 840},
            frequency_minutes : {15, 20160}] :
        /\ r.schedule_type # "weekly" => r.day_of_week = "sun"
        /\ r.schedule_type # "monthly" => r.day_of_month = 1
        /\ r.schedule_type # "interval" => r.frequency_minutes = 20160}

\* the row of a cache_clear schedule of user u1
CacheSchedule(id, r, next_run_at) ==
    [id |-> id, playlist_id |-> CACHE_GLOBAL_PLAYLIST_ID, user_id |-> "u1",
     action_type |-> "cache_clear", sort_by |-> "date_added", direction |-> "desc",
     method |-> "preserve", schedule_type |-> r.schedule_type,
     hour_of_day |-> r.hour_of_day, day_of_week |-> r.day_of_week,
     day_of_month |-> r.day_of_month,
     timezone_offset_minutes |-> r.timezone_offset_minutes,
     frequency_minutes |-> r.frequency_minutes, enabled |-> TRUE,
     next_run_at |-> next_run_at, last_run_at |-> None, status |-> "scheduled",
     last_error |-> None]

InitNextRun ==
    /\ phase = "up"
    /\ now \in {d * 1440 + t : d \in NextRunDays, t \in NextRunTimes}
    /\ \E r \in Recurrences, missed \in {0, 3 * 1440} :
          schedules = <<CacheSchedule(1, r, Some(now - missed))>>
    /\ nextSched = 1
    /\ jobs = <<>> /\ wk = <<>> /\ running = <<>>
    /\ remote = TwoPlaylists
    /\ snapshot = [p \in Playlists |-> 1]
    /\ ops = <<>> /\ nextOp = 1
    /\ sched = SchedIdle /\ creq = 0 /\ resp = NoResp /\ hist = NoHist

NextNextRun ==
    \/ run_due
    \/ \E success \in BOOLEAN : run_cache_schedule(success)

SpecNextRun == InitNextRun /\ [][NextNextRun]_vars

(***************************************************************************)
(* routes/schedule.py and create_schedule of db/schedules.py.              *)
(***************************************************************************)
ActionTypes == {"sort", "cache_clear"}

\* the default recurrence of SortScheduleRequest: daily at 09:00 UTC
DefaultRecurrence ==
    [schedule_type |-> "daily", hour_of_day |-> 9, day_of_week |-> "mon",
     day_of_month |-> 1, timezone_offset_minutes |-> 0, frequency_minutes |-> 1440]

\* idx_playlist_schedules_unique: another row of the user and playlist
UniqueViolation(rows, user_id, playlist_id) ==
    \E i \in 1..Len(rows) : rows[i].user_id = user_id /\ rows[i].playlist_id = playlist_id

\* create_schedule(playlist_id, user_id, action_type, params, first_run_at):
\* DELETE the rows of the triple, INSERT; an IntegrityError of the INSERT
\* leaves the table as it was (the connection closes without commit) and
\* the route answers 500
create_schedule(user_id, playlist_id, action_type, first_run_at) ==
    /\ phase = "up"
    /\ nextSched < MaxSchedules
    /\ LET kept == SelectSeq(schedules, LAMBDA s :
                      ~(/\ s.playlist_id = playlist_id /\ s.user_id = user_id
                        /\ s.action_type = action_type))
           next_run_at == IF first_run_at # None THEN first_run_at
                          ELSE Some(compute_next_run(DefaultRecurrence, now))
           row == [CacheSchedule(nextSched + 1, DefaultRecurrence, next_run_at)
                      EXCEPT !.playlist_id = playlist_id, !.user_id = user_id,
                             !.action_type = action_type]
       IN IF UniqueViolation(kept, user_id, playlist_id)
          THEN /\ UNCHANGED <<schedules, nextSched>>
               /\ resp' = Response("schedule", user_id, playlist_id, 500, 0)
          ELSE /\ schedules' = Append(kept, row)
               /\ nextSched' = nextSched + 1
               /\ resp' = Response("schedule", user_id, playlist_id, 200, nextSched + 1)
    /\ UNCHANGED <<phase, now, jobs, wk, running, remote, snapshot, ops, nextOp,
                   sched, creq, hist>>

\* PATCH /playlists/{playlist_id}/schedules/{schedule_id} with enabled only
update_schedule(user_id, playlist_id, schedule_id, enabled) ==
    /\ phase = "up"
    /\ IF \E i \in 1..Len(schedules) :
             /\ schedules[i].id = schedule_id /\ schedules[i].user_id = user_id
             /\ schedules[i].playlist_id = playlist_id
       THEN /\ schedules' = [i \in 1..Len(schedules) |->
                               IF schedules[i].id = schedule_id
                                    /\ schedules[i].user_id = user_id
                               THEN [schedules[i] EXCEPT !.enabled = enabled]
                               ELSE schedules[i]]
            /\ resp' = Response("schedule", user_id, playlist_id, 200, schedule_id)
       ELSE /\ UNCHANGED schedules
            /\ resp' = Response("schedule", user_id, playlist_id, 404, 0)
    /\ UNCHANGED <<phase, now, nextSched, jobs, wk, running, remote, snapshot, ops,
                   nextOp, sched, creq, hist>>

(***************************************************************************)
(* SpecSched: the users create schedules of both action types for both     *)
(* playlists, first due a minute ago, now or at the default hour, and      *)
(* switch them off; the scheduler dispatches.                              *)
(***************************************************************************)
InitSched == InitWith(TwoPlaylists, <<>>)

NextSched ==
    \/ \E u \in Users, p \in Playlists, a \in ActionTypes,
          first_run_at \in {None, Some(StartTime - 1), Some(StartTime)} :
          create_schedule(u, p, a, first_run_at)
    \/ \E i \in 1..Len(schedules) :
          /\ schedules[i].enabled
          /\ update_schedule(schedules[i].user_id, schedules[i].playlist_id,
                             schedules[i].id, FALSE)
    \/ Scheduler
    \/ \E success \in BOOLEAN : run_cache_schedule(success)

SpecSched == InitSched /\ [][NextSched]_vars

(***************************************************************************)
(* SpecLimit: u1 submits sorts of p1 and p2 and has a schedule, due now,   *)
(* for a sort of a third playlist; the workers and the scheduler run.      *)
(***************************************************************************)
ThreePlaylists ==
    [p \in Playlists \cup {"p3"} |->
        IF p \in Playlists THEN TwoPlaylists[p] ELSE <<Item(1, Some(2))>>]

InitLimit ==
    /\ phase = "up"
    /\ now = StartTime
    /\ jobs = <<>> /\ wk = <<>> /\ running = <<>>
    /\ remote = ThreePlaylists
    /\ snapshot = [p \in DOMAIN ThreePlaylists |-> 1]
    /\ ops = <<>> /\ nextOp = 1
    /\ schedules = <<NewSchedule(1, "p3", "u1", "title", "asc", "fast", Some(StartTime))>>
    /\ nextSched = 1
    /\ sched = SchedIdle /\ creq = 0 /\ resp = NoResp
    /\ hist = [NoHist EXCEPT !.sortJob = [p \in DOMAIN ThreePlaylists |-> 0],
                             !.before = [p \in DOMAIN ThreePlaylists |-> <<>>],
                             !.clean = [p \in DOMAIN ThreePlaylists |-> FALSE]]

NextLimit ==
    \/ \E p \in Playlists : start_sort("u1", p, "title", "asc", "preserve")
    \/ \E j \in JobIds : Worker(j)
    \/ Scheduler

SpecLimit == InitLimit /\ [][NextLimit]_vars

(***************************************************************************)
(* SpecCancel: u1 sorts p1, three items in reverse title order (two pages, *)
(* two batches, two moves), with either method and cancels; the workers    *)
(* run and their calls may raise.                                          *)
(***************************************************************************)
InitCancel ==
    InitWith([p \in Playlists |->
                 IF p = "p1" THEN <<Item(1, Some(2)), Item(3, None), Item(4, Some(1))>>
                 ELSE <<>>], <<>>)

NextCancel ==
    \/ \E m \in Methods : start_sort("u1", "p1", "title", "asc", m)
    \/ \E j \in JobIds : cancel_sort_read("u1", j)
    \/ cancel_sort_write
    \/ \E j \in JobIds : Worker(j)

SpecCancel == InitCancel /\ [][NextCancel]_vars

(***************************************************************************)
(* SpecTick: three schedules of either action type are due, a minute ago   *)
(* or now; the scheduler thread runs its tick, and any dispatch may fail.  *)
(***************************************************************************)
InitTick ==
    \E action_type \in [1..MaxSchedules -> ActionTypes],
       first_run_at \in [1..MaxSchedules -> {StartTime - 1, StartTime}] :
        InitWith(TwoPlaylists,
                 [i \in 1..MaxSchedules |->
                     [NewSchedule(i, IF i = 2 THEN "p2" ELSE "p1",
                                  IF i = 3 THEN "u2" ELSE "u1",
                                  "title", "asc", "fast", Some(first_run_at[i]))
                         EXCEPT !.action_type = action_type[i]]])

NextTick ==
    \/ Scheduler
    \/ \E success \in BOOLEAN : run_cache_schedule(success)

SpecTick == InitTick /\ [][NextTick]_vars

(***************************************************************************)
(* SpecStale: a job of u1 for p1 has been pending for 0 to 16 minutes,     *)
(* with a total around each step of the timeout table; the users ask for   *)
(* the active job of p1, u1 submits again, and the worker starts or not.   *)
(***************************************************************************)
InitStale ==
    \E total_tracks \in {0, 99, 100, 499, 500, 999, 1000, 5000},
       age \in 0..(timeout_minutes(1000) + 1) :
        /\ phase = "up"
        /\ now = timeout_minutes(1000) + 1
        /\ jobs = <<[NewJob("p1", "u1", "title", "asc", "preserve", total_tracks)
                        EXCEPT !.started_at = now - age]>>
        /\ wk = <<NewWorker>>
        /\ running = [j \in {1} |-> FALSE]
        /\ remote = TwoPlaylists
        /\ snapshot = [p \in Playlists |-> 1]
        /\ ops = <<>> /\ nextOp = 1
        /\ schedules = <<>> /\ nextSched = 0
        /\ sched = SchedIdle /\ creq = 0 /\ resp = NoResp /\ hist = NoHist

NextStale ==
    \/ \E u \in Users : get_active_sort(u, "p1")
    \/ start_sort("u1", "p1", "title", "asc", "preserve")
    \/ \E j \in JobIds : WStart(j)

SpecStale == InitStale /\ [][NextStale]_vars

(***************************************************************************)
(* SpecDedup: a playlist of up to MaxLen items, some held more than once;  *)
(* its owner removes the occurrences at any set of positions and undoes    *)
(* the removal; another client may write to the playlist in between.       *)
(***************************************************************************)
InitDedup ==
    \E t \in UNION {[1..n -> Items] : n \in 0..MaxLen} :
        InitWith([p \in Playlists |-> IF p = "p1" THEN t ELSE <<>>], <<>>)

NextDedup ==
    \/ \E positions \in SUBSET (0..(MaxLen - 1)), recorded \in BOOLEAN :
          remove_duplicates("u1", "p1", positions, recorded)
    \/ undo_last_operation("u1", "p1")
    \/ ExternalWrite("p1")

SpecDedup == InitDedup /\ [][NextDedup]_vars

(***************************************************************************)
(* SpecPool: the pool is full.  max_workers jobs of p2 were cancelled while *)
(* their strategies ran: their rows are cancelled, their events set, their *)
(* threads about to return from the strategy.  One more job, a sort of p1  *)
(* by u1, is pending in the queue of the pool; u1 may cancel it.           *)
(* SpecPoolFair adds what the thread pool and the server give: while some  *)
(* thread can take a step, one of them does, and a request that was read   *)
(* is carried out.                                                         *)
(***************************************************************************)
PoolJobs == 1..(max_workers + 1)

InitPool ==
    \E m \in Methods :
        /\ phase = "up"
        /\ now = StartTime
        /\ jobs = [j \in PoolJobs |->
                     IF j <= max_workers
                     THEN [NewJob("p2", IF j % 2 = 0 THEN "u2" ELSE "u1",
                                  "title", "asc", "fast", 1)
                              EXCEPT !.status = "cancelled", !.completed_at = Some(now)]
                     ELSE NewJob("p1", "u1", "title", "desc", m, 2)]
        /\ wk = [j \in PoolJobs |->
                   IF j <= max_workers
                   THEN [NewWorker EXCEPT !.pc = "finish", !.snapshot_before = 1,
                                          !.tracks = TwoPlaylists["p2"],
                                          !.current_positions = <<0>>,
                                          !.target_pos = batch_size]
                   ELSE NewWorker]
        /\ running = [j \in PoolJobs |-> j <= max_workers]
        /\ remote = TwoPlaylists
        /\ snapshot = [p \in Playlists |-> 1]
        /\ ops = <<>> /\ nextOp = 1
        /\ schedules = <<>> /\ nextSched = 0
        /\ sched = SchedIdle /\ creq = 0 /\ resp = NoResp
        /\ hist = [NoHist EXCEPT !.late = [j \in PoolJobs |-> 0]]

NextPool ==
    \/ \E j \in PoolJobs : Worker(j)
    \/ cancel_sort_read("u1", max_workers + 1)
    \/ cancel_sort_write

SpecPool == InitPool /\ [][NextPool]_vars

SpecPoolFair ==
    /\ SpecPool
    /\ WF_vars(\E j \in PoolJobs : Worker(j))
    /\ WF_vars(cancel_sort_write)

(***************************************************************************)
(* SpecBacklog: one schedule more than a tick takes is due.  Eleven users  *)
(* each have their cache_clear schedule; ten became due a minute ago, one  *)
(* (the first, the last or one between) only now.  The scheduler thread    *)
(* reads and dispatches and each dispatch may fail.  SpecBacklogFair adds  *)
(* what the loop of the scheduler thread gives: it keeps reading, and goes *)
(* through its batch.                                                      *)
(***************************************************************************)
BacklogUsers == <<"u1", "u2", "u3", "u4", "u5", "u6", "u7", "u8", "u9", "u10", "u11">>

BacklogIds == 1..(DueLimit + 1)

InitBacklog ==
    \E latest \in {1, 4, DueLimit + 1} :
        InitWith(TwoPlaylists,
                 [i \in BacklogIds |->
                     [NewSchedule(i, CACHE_GLOBAL_PLAYLIST_ID, BacklogUsers[i],
                                  "title", "asc", "fast",
                                  Some(IF i = latest THEN StartTime ELSE StartTime - 1))
                         EXCEPT !.action_type = "cache_clear"]])

NextBacklog ==
    \/ run_due
    \/ \E success \in BOOLEAN : run_cache_schedule(success)

SpecBacklog == InitBacklog /\ [][NextBacklog]_vars

SpecBacklogFair ==
    /\ SpecBacklog
    /\ WF_vars(run_due)
    /\ WF_vars(\E success \in BOOLEAN : run_cache_schedule(success))

(***************************************************************************)
(* SpecFull: every pool thread runs a job.  max_workers jobs of p2 were    *)
(* cancelled while queued and then started: their rows are in_progress,    *)
(* their events set, their threads in the fetch loop.  One more job, a     *)
(* sort of the empty playlist p1, is pending in the queue of the pool.     *)
(* The threads are followed until they leave their jobs, the queued job    *)
(* until it has read its playlist.                                         *)
(***************************************************************************)
InitFull ==
    /\ phase = "up"
    /\ now = StartTime
    /\ jobs = [j \in PoolJobs |->
                 IF j <= max_workers
                 THEN [NewJob("p2", IF j % 2 = 0 THEN "u2" ELSE "u1",
                              "title", "asc", "fast", 1)
                          EXCEPT !.status = "in_progress", !.completed_at = Some(now)]
                 ELSE NewJob("p1", "u1", "title", "asc", "preserve", 0)]
    /\ wk = [j \in PoolJobs |->
               IF j <= max_workers
               THEN [NewWorker EXCEPT !.pc = "fetch", !.snapshot_before = 1]
               ELSE NewWorker]
    /\ running = [j \in PoolJobs |-> j <= max_workers]
    /\ remote = [p \in Playlists |-> IF p = "p2" THEN TwoPlaylists[p] ELSE <<>>]
    /\ snapshot = [p \in Playlists |-> 1]
    /\ ops = <<>> /\ nextOp = 1
    /\ schedules = <<>> /\ nextSched = 0
    /\ sched = SchedIdle /\ creq = 0 /\ resp = NoResp
    /\ hist = [NoHist EXCEPT !.late = [j \in PoolJobs |-> 0]]

NextFull == \E j \in PoolJobs : WStart(j) \/ WSnapshot(j) \/ WFetch(j) \/ WError(j)

SpecFull == InitFull /\ [][NextFull]_vars

(***************************************************************************)
(* SpecSort: the sort engine alone.  A worker has fetched an arbitrary     *)
(* track list and analysed it; nobody else touches the playlist.           *)
(***************************************************************************)
TrackLists == UNION {[1..n -> Items] : n \in 0..MaxLen}

InitSort ==
    \E t \in TrackLists, f \in SortFields, d \in Directions, m \in Methods :
        /\ phase = "up"
        /\ now = StartTime
        /\ remote = [p \in Playlists |-> IF p = "p1" THEN t ELSE <<>>]
        /\ snapshot = [p \in Playlists |-> 0]
        /\ LET st == sorted_tracks(t, f, d)
               ttm == calculate_moves_needed(t, st)
           IN jobs = <<[NewJob("p1", "u1", f, d, m, Len(t)) EXCEPT
                           !.status = "in_progress",
                           !.total = IF m = "preserve" THEN ttm ELSE Len(t)]>>
        /\ wk = <<[NewWorker EXCEPT !.pc = "sort", !.tracks = t,
                                    !.current_positions = [i \in 1..Len(t) |-> i - 1]]>>
        /\ running = [j \in {1} |-> FALSE]
        /\ ops = <<>>
        /\ nextOp = 1
        /\ schedules = <<>> /\ nextSched = 0
        /\ sched = SchedIdle
        /\ creq = 0
        /\ resp = NoResp
        /\ hist = NoHist

NextSort == WPreserve(1) \/ WFast(1)

SpecSort == InitSort /\ [][NextSort]_vars

(***************************************************************************)
(* C1.  Replaying the moves of the preserve strategy, in issue order, on   *)
(* the remote order leaves the remote order equal to the target order      *)
(* sorted(tracks), for every track list, sort field and direction, when    *)
(* nobody else writes to the playlist during the run.                      *)
(***************************************************************************)
C1_PreserveReachesTarget ==
    (jobs[1].method = "preserve" /\ wk[1].pc = "finish")
        => remote["p1"] = sorted_tracks(wk[1].tracks, jobs[1].sort_by, jobs[1].direction)


\* a preserve run on three distinct tracks that took two moves
C1_Witness ==
    /\ jobs[1].method = "preserve"
    /\ wk[1].pc = "finish"
    /\ Len(wk[1].tracks) = 3
    /\ IsDistinct(wk[1].tracks)
    /\ wk[1].moves_made = 2
    /\ remote["p1"] # wk[1].tracks

(***************************************************************************)
(* Sort, then undo (SpecUndo).                                             *)
(***************************************************************************)
\* the job that last read p1 has completed and its worker has returned, and
\* nobody but that job has written to p1 since it read the snapshot
SortedLast(j) ==
    /\ j # 0
    /\ hist.sortJob["p1"] = j
    /\ jobs[j].status = "completed"
    /\ wk[j].pc = "done"
    /\ hist.clean["p1"]

\* the entry an undo of p1 by u1 selects now: its position in the log after
\* cleanup, or 0
Selected == get_latest_operation(cleanup_expired(ops), "p1", "u1")

\* the job whose entry an undo selects now, or 0
SelectedJob == IF Selected = 0 THEN 0 ELSE cleanup_expired(ops)[Selected].job

\* the tracks job j read are already in its target order
AlreadySorted(j) ==
    sorted_tracks(wk[j].tracks, jobs[j].sort_by, jobs[j].direction) = wk[j].tracks

C3_NoOpPreserve ==
    \A j \in JobIds :
        (/\ jobs[j].method = "preserve"
         /\ wk[j].pc \in {"finish", "record", "done"}
         /\ jobs[j].status \in {"in_progress", "completed"}
         /\ AlreadySorted(j))
          => /\ wk[j].moves_made = 0
             /\ \A i \in 1..Len(ops) :
                   ops[i].job = j => ~ops[i].changes_made /\ ~ops[i].undone
             /\ ~(resp.kind = "undo" /\ resp.job_id = j)

\* a second preserve run right after a completed one, same direction, on
\* three items: its entry is in the log and an undo answered with the first
C3_Witness ==
    /\ Len(jobs) = 2
    /\ jobs[1].method = "preserve" /\ jobs[2].method = "preserve"
    /\ jobs[1].direction = jobs[2].direction
    /\ jobs[1].status = "completed" /\ jobs[2].status = "completed"
    /\ wk[1].moves_made > 0
    /\ Len(wk[2].tracks) = 3 /\ AlreadySorted(2)
    /\ \E i \in 1..Len(ops) : ops[i].job = 2
    /\ resp.kind = "undo" /\ resp.job_id = 1 /\ resp.code = 200

C4_LimitRejects ==
    [][\A u \in Users, p \in Playlists, m \in Methods :
          (/\ start_sort(u, p, "title", "asc", m)
           /\ get_user_active_job_count(u) >= 2)
             => /\ resp'.code # 200
                /\ resp'.job_id = 0
                /\ jobs' = jobs
                /\ wk' = wk
                /\ running' = running]_vars

\* a rejected start_sort of a user whose two jobs are both still active
C4_Witness ==
    /\ resp.kind = "start_sort" /\ resp.code = 500 /\ resp.job_id = 0
    /\ Len(jobs) = 2
    /\ \A j \in JobIds : jobs[j].user_id = resp.user_id /\ jobs[j].status \in Active

C9_StartupSweep ==
    /\ phase \in {"down", "recovered"}
          => /\ sched = SchedIdle
             /\ Len(jobs) = Len(hist.preCrash)
    /\ phase = "recovered"
          => \A j \in JobIds :
                /\ jobs[j].status \notin Active
                /\ hist.preCrash[j].status \in Active
                      => /\ jobs[j].status = "failed"
                         /\ jobs[j].error = ERR_RESTART
                         /\ jobs[j].completed_at # None
                /\ hist.preCrash[j].status \in Terminal
                      => jobs[j] = hist.preCrash[j]

\* the sweep is done after a crash that left one job pending and one in
\* progress
C9_Witness ==
    /\ phase = "recovered"
    /\ \E j \in JobIds : hist.preCrash[j].status = "pending" /\ jobs[j].status = "failed"
    /\ \E j \in JobIds : hist.preCrash[j].status = "in_progress" /\ jobs[j].status = "failed"

(***************************************************************************)
(* Interleavings (Spec).                                                   *)
(***************************************************************************)
(***************************************************************************)
(* C6 as stated.  Every playlist has at most one job pending or            *)
(* in_progress, and at most one worker executing a strategy against it.    *)
(***************************************************************************)
C6_AsStated ==
    \A p \in Playlists :
        /\ Cardinality({j \in JobIds : jobs[j].playlist_id = p
                                        /\ jobs[j].status \in Active}) <= 1
        /\ Cardinality({j \in JobIds : jobs[j].playlist_id = p
                                        /\ wk[j].pc = "sort"}) <= 1

\* the status transitions the job state machine names (the restart sweep
\* takes pending and in_progress to failed as well)
Allowed ==
    {<<"pending", "in_progress">>, <<"in_progress", "completed">>,
     <<"in_progress", "cancelled">>, <<"in_progress", "failed">>,
     <<"pending", "failed">>}

(***************************************************************************)
(* C7 as stated.  Every change of the status of a job is one of            *)
(* pending->in_progress, in_progress->completed, in_progress->cancelled,   *)
(* in_progress->failed and pending->failed.                                *)
(***************************************************************************)
C7_AsStated ==
    [][\A j \in JobIds :
          jobs'[j].status # jobs[j].status
             => <<jobs[j].status, jobs'[j].status>> \in Allowed]_vars

(***************************************************************************)
(* C8 as stated.  Once the status of a job is completed, failed or         *)
(* cancelled, no step changes it.                                          *)
(***************************************************************************)
C8_AsStated ==
    [][\A j \in JobIds :
          jobs[j].status \in Terminal => jobs'[j].status = jobs[j].status]_vars

(***************************************************************************)
(* The operation log (SpecLog).                                            *)
(***************************************************************************)
\* the rows of the log that an undo of playlist p by user u may take: of
\* that playlist and that user, not undone, not expired, with changes
Candidates(p, u) ==
    {k \in 1..Len(ops) : /\ ops[k].playlist_id = p /\ ops[k].user_id = u
                         /\ ~ops[k].undone /\ ops[k].expires_at > now
                         /\ ops[k].changes_made}

(***************************************************************************)
(* C11.  get_latest_operation(playlist, user) returns a row of exactly     *)
(* that playlist and user that is not undone, not expired and has          *)
(* changes_made, with the greatest created_at among such rows, and         *)
(* nothing when there is no such row; an undo then answers 404 and leaves  *)
(* the remote playlist, its snapshot id and the undone flags as they are.  *)
(***************************************************************************)
C11_LatestOperation ==
    /\ [](\A u \in Users, p \in Playlists :
             LET i == get_latest_operation(ops, p, u)
             IN IF Candidates(p, u) = {} THEN i = 0
                ELSE /\ i \in Candidates(p, u)
                     /\ \A k \in Candidates(p, u) :
                           ops[k].created_at <= ops[i].created_at)
    /\ [][\A u \in Users, p \in Playlists :
             (undo_last_operation(u, p) /\ Candidates(p, u) = {})
                => /\ resp'.code = 404
                   /\ remote' = remote
                   /\ snapshot' = snapshot
                   /\ \A k \in 1..Len(ops') : \E i \in 1..Len(ops) : ops'[k] = ops[i]]_vars

\* an undo was answered 404 although the log holds a live row of the same
\* user and playlist without changes and an undoable row of the same
\* playlist that belongs to the other user
C11_Witness ==
    /\ resp.kind = "undo" /\ resp.code = 404
    /\ \E k \in 1..Len(ops) :
          /\ ops[k].playlist_id = resp.playlist_id /\ ops[k].user_id = resp.user_id
          /\ ~ops[k].undone /\ ops[k].expires_at > now /\ ~ops[k].changes_made
    /\ \E u \in Users \ {resp.user_id} : Candidates(resp.playlist_id, u) # {}
    /\ remote = LogPlaylists

(***************************************************************************)
(* C12.  An operation is undone at most once: an undone flag never returns *)
(* to false, get_latest_operation never returns an undone row, and an undo *)
(* that replays an order takes a row of its user and playlist that was not *)
(* undone before and marks it undone.                                      *)
(***************************************************************************)
C12_UndoneOnce ==
    /\ [](\A u \in Users, p \in Playlists :
             get_latest_operation(ops, p, u) # 0
                => ~ops[get_latest_operation(ops, p, u)].undone)
    /\ [][/\ \A i \in 1..Len(ops), k \in 1..Len(ops') :
                (ops[i].undone /\ ops'[k].id = ops[i].id) => ops'[k].undone
          /\ \A u \in Users, p \in Playlists :
                (undo_last_operation(u, p) /\ resp'.code = 200)
                   => \E i \in 1..Len(ops) :
                         /\ ~ops[i].undone
                         /\ ops[i].playlist_id = p /\ ops[i].user_id = u
                         /\ remote'[p] = UndoReplay(ops[i].original_order)
                         /\ \E k \in 1..Len(ops') :
                               ops'[k].id = ops[i].id /\ ops'[k].undone
                         /\ \A k \in 1..Len(ops') :
                               (ops'[k].undone /\ ops'[k].id # ops[i].id)
                                  => \E n \in 1..Len(ops) : ops[n] = ops'[k]]_vars

\* the entry of a finished sort was undone, and a later undo of the same user
\* and playlist found nothing to undo
C12_Witness ==
    /\ resp.kind = "undo" /\ resp.code = 404
    /\ \E k \in 1..Len(ops) :
          /\ ops[k].playlist_id = resp.playlist_id /\ ops[k].user_id = resp.user_id
          /\ ops[k].undone /\ ops[k].changes_made /\ ops[k].expires_at > now
          /\ ops[k].job # 0

(***************************************************************************)
(* C13.  A row with expires_at <= now is returned neither by               *)
(* get_latest_operation nor by get_history, on the log as it is and on the *)
(* swept log alike; cleanup_expired keeps exactly the rows with            *)
(* expires_at > now, in their order, and the history route leaves exactly  *)
(* those rows in the table.                                                *)
(***************************************************************************)
C13_Expiry ==
    /\ [](/\ \A u \in Users, p \in Playlists :
               \A rows \in {ops, cleanup_expired(ops)} :
                  /\ get_latest_operation(rows, p, u) # 0
                        => rows[get_latest_operation(rows, p, u)].expires_at > now
                  /\ \A k \in 1..Len(get_history(rows, p, u, HistoryLimit)) :
                        get_history(rows, p, u, HistoryLimit)[k].expires_at > now
          /\ \A i \in 1..Len(ops) :
                ops[i].expires_at > now
                   <=> \E k \in 1..Len(cleanup_expired(ops)) :
                          cleanup_expired(ops)[k] = ops[i]
          /\ \A k \in 1..Len(cleanup_expired(ops)) :
                \E i \in 1..Len(ops) : cleanup_expired(ops)[k] = ops[i]
          /\ Len(cleanup_expired(ops))
                = Cardinality({i \in 1..Len(ops) : ops[i].expires_at > now}))
    /\ [][\A u \in Users, p \in Playlists :
             get_playlist_history(u, p)
                => /\ \A i \in 1..Len(ops) :
                         ops[i].expires_at > now
                            <=> \E k \in 1..Len(ops') : ops'[k] = ops[i]
                   /\ \A k \in 1..Len(ops') : \E i \in 1..Len(ops) : ops'[k] = ops[i]]_vars

\* the history route swept one of two rows; time passed, and the row that is
\* left, not undone and with changes, expires at this very instant and is
\* still in the table
C13_Witness ==
    /\ resp.kind = "history"
    /\ now > StartTime
    /\ nextOp = 3 /\ Len(ops) = 1
    /\ ops[1].expires_at = now /\ ~ops[1].undone /\ ops[1].changes_made
    /\ get_latest_operation(ops, ops[1].playlist_id, ops[1].user_id) = 0
    /\ get_history(ops, ops[1].playlist_id, ops[1].user_id, HistoryLimit) = <<>>

(***************************************************************************)
(* The recurrences (SpecNextRun).                                          *)
(***************************************************************************)
\* the rows mark_run has written at this instant
Marked == {i \in 1..Len(schedules) : schedules[i].last_run_at = Some(now)}

(***************************************************************************)
(* C16.  mark_run at time now sets last_run_at = now, status ok with no    *)
(* last_error on success and failed with a last_error on failure, and a    *)
(* next_run_at strictly later than now, whatever the recurrence type, hour *)
(* and offset and however old the missed next_run_at was; the row is not   *)
(* due again at that instant.                                              *)
(***************************************************************************)
C16_MarkRun ==
    /\ [](\A i \in Marked :
             /\ schedules[i].next_run_at # None
             /\ schedules[i].next_run_at[1] > now
             /\ ~Due(schedules[i])
             /\ \A k \in 1..Len(due_schedules(DueLimit)) :
                   due_schedules(DueLimit)[k].id # schedules[i].id)
    /\ [][\A success \in BOOLEAN :
             run_cache_schedule(success)
                => \E i \in 1..Len(schedules') :
                      /\ schedules'[i].id = Head(sched.due).id
                      /\ schedules'[i].last_run_at = Some(now)
                      /\ schedules'[i].status = (IF success THEN "ok" ELSE "failed")
                      /\ (success => schedules'[i].last_error = None)
                      /\ (~success => schedules'[i].last_error # None)
                      /\ schedules'[i].next_run_at[1] > now]_vars

\* a failed run of a monthly schedule in a zone east of UTC was marked and
\* the scheduler went back to sleep
C16_Witness ==
    \E i \in Marked :
       /\ schedules[i].status = "failed" /\ schedules[i].last_error # None
       /\ schedules[i].schedule_type = "monthly"
       /\ schedules[i].timezone_offset_minutes > 0
       /\ schedules[i].next_run_at[1] > now
       /\ sched.pc = "sleep"

(***************************************************************************)
(* C17.  For a daily schedule the next run is the first instant strictly   *)
(* after now whose local time (the instant shifted by                      *)
(* timezone_offset_minutes) is hour_of_day:00: it is later than now, at    *)
(* most 24 hours later, and at that hour of the local day.                 *)
(***************************************************************************)
C17_Daily ==
    \A i \in Marked :
       schedules[i].schedule_type = "daily"
          => LET next == schedules[i].next_run_at[1]
                 offset == schedules[i].timezone_offset_minutes
             IN /\ next > now
                /\ next - now <= 24 * 60
                /\ (next + offset) % (24 * 60) = schedules[i].hour_of_day * 60

\* at 23:00 UTC a daily schedule for 09:00 with offset 0 was marked: the next
\* run is 09:00 of the next day, ten hours later
C17_Witness ==
    \E i \in Marked :
       /\ schedules[i].schedule_type = "daily"
       /\ schedules[i].hour_of_day = 9 /\ schedules[i].timezone_offset_minutes = 0
       /\ now % 1440 = 23 * 60
       /\ schedules[i].next_run_at = Some(now + 10 * 60)

\* the weekdays in the order of datetime.weekday()
Weekdays == <<"mon", "tue", "wed", "thu", "fri", "sat", "sun">>

\* today's anchor of row i: hour_of_day:00 of the local day of now, as an
\* instant of the clock
TodayAnchor(i) ==
    ((now + schedules[i].timezone_offset_minutes) \div 1440) * 1440
        + schedules[i].hour_of_day * 60 - schedules[i].timezone_offset_minutes

\* the local weekday of an instant for row i
LocalWeekday(i, t) ==
    Weekdays[(((t + schedules[i].timezone_offset_minutes) \div 1440) % 7) + 1]

(***************************************************************************)
(* C18.  For a weekly schedule the next run is on the requested weekday at *)
(* hour_of_day:00 local, strictly after now and at most 7 days after now;  *)
(* when today is the requested weekday and the hour has passed or is       *)
(* exactly now, it is exactly 7 days after today's anchor.                 *)
(***************************************************************************)
C18_Weekly ==
    \A i \in Marked :
       schedules[i].schedule_type = "weekly"
          => LET next == schedules[i].next_run_at[1]
                 offset == schedules[i].timezone_offset_minutes
             IN /\ next > now
                /\ next - now <= 7 * 24 * 60
                /\ (next + offset) % (24 * 60) = schedules[i].hour_of_day * 60
                /\ LocalWeekday(i, next) = schedules[i].day_of_week
                /\ (LocalWeekday(i, now) = schedules[i].day_of_week
                      /\ TodayAnchor(i) <= now)
                     => next = TodayAnchor(i) + 7 * 24 * 60

\* on the requested weekday, exactly at the anchor, a weekly schedule in a
\* zone east of UTC was marked: the next run is a week later
C18_Witness ==
    \E i \in Marked :
       /\ schedules[i].schedule_type = "weekly"
       /\ schedules[i].timezone_offset_minutes > 0
       /\ LocalWeekday(i, now) = schedules[i].day_of_week
       /\ TodayAnchor(i) = now
       /\ schedules[i].next_run_at = Some(now + 7 * 24 * 60)

\* this month's anchor of row i: day min(day_of_month, 28) of the local month
\* of now at hour_of_day:00, as an instant of the clock
MonthAnchor(i) ==
    timestamp([datetime(now + schedules[i].timezone_offset_minutes) EXCEPT
                  !.day = Min2(schedules[i].day_of_month, 28),
                  !.hour = schedules[i].hour_of_day, !.minute = 0])
        - schedules[i].timezone_offset_minutes

(***************************************************************************)
(* C19.  For a monthly schedule the next run is on day                     *)
(* min(day_of_month, 28) at hour_of_day:00 local: in the local month of    *)
(* now when that anchor is strictly after now, otherwise in the following  *)
(* month, which after December is January of the next year.                *)
(***************************************************************************)
C19_Monthly ==
    \A i \in Marked :
       schedules[i].schedule_type = "monthly"
          => LET next == schedules[i].next_run_at[1]
                 local == datetime(next + schedules[i].timezone_offset_minutes)
                 today == datetime(now + schedules[i].timezone_offset_minutes)
             IN /\ local.day = Min2(schedules[i].day_of_month, 28)
                /\ local.hour = schedules[i].hour_of_day /\ local.minute = 0
                /\ next > now
                /\ next - now <= 31 * 24 * 60
                /\ IF MonthAnchor(i) > now
                   THEN next = MonthAnchor(i)
                   ELSE IF today.month = 12
                   THEN local.month = 1 /\ local.year = today.year + 1
                   ELSE local.month = today.month + 1 /\ local.year = today.year

\* in December, after the anchor of the 28th (requested: the 31st), a monthly
\* schedule was marked: the next run is on 28 January of the next year
C19_Witness ==
    \E i \in Marked :
       /\ schedules[i].schedule_type = "monthly"
       /\ schedules[i].day_of_month = 31
       /\ datetime(now + schedules[i].timezone_offset_minutes).month = 12
       /\ datetime(now + schedules[i].timezone_offset_minutes).day > 28
       /\ LET local == datetime(schedules[i].next_run_at[1]
                                   + schedules[i].timezone_offset_minutes)
          IN local.year = EpochYear + 1 /\ local.month = 1 /\ local.day = 28

(***************************************************************************)
(* The schedules (SpecSched).                                              *)
(***************************************************************************)
\* the positions of the rows of a (playlist, user, action_type) triple
OfTriple(rows, playlist_id, user_id, action_type) ==
    {i \in 1..Len(rows) : /\ rows[i].playlist_id = playlist_id
                          /\ rows[i].user_id = user_id
                          /\ rows[i].action_type = action_type}

(***************************************************************************)
(* C14.  There is at most one schedule per (playlist, user, action_type);  *)
(* create_schedule succeeds, leaves exactly the new row for its triple and *)
(* leaves the rows of every other triple, another action_type of the same *)
(* playlist and user included, as they are.                                *)
(***************************************************************************)
C14_AsStated ==
    /\ [](\A u \in Users, p \in Playlists, a \in ActionTypes :
             Cardinality(OfTriple(schedules, p, u, a)) <= 1)
    /\ [][\A u \in Users, p \in Playlists, a \in ActionTypes :
             (\E first_run_at \in {None, Some(StartTime - 1), Some(StartTime)} :
                 create_schedule(u, p, a, first_run_at))
                => /\ resp'.code = 200
                   /\ \E k \in 1..Len(schedules') :
                         /\ OfTriple(schedules', p, u, a) = {k}
                         /\ schedules'[k].id = nextSched + 1
                   /\ \A i \in 1..Len(schedules) :
                         i \notin OfTriple(schedules, p, u, a)
                            => \E k \in 1..Len(schedules') : schedules'[k] = schedules[i]]_vars

\* the rows a tick may dispatch: enabled, with a next_run_at at or before now
Eligible ==
    {i \in 1..Len(schedules) : /\ schedules[i].enabled
                               /\ schedules[i].next_run_at # None
                               /\ schedules[i].next_run_at[1] <= now}

C20_AsStated ==
    /\ [](\A u \in Users : get_user_active_job_count(u) <= MAX_CONCURRENT_JOBS)
    /\ [][(run_sort_schedule_create
             /\ get_user_active_job_count(Head(sched.due).user_id) >= MAX_CONCURRENT_JOBS)
            => Len(jobs') = Len(jobs)]_vars

(***************************************************************************)
(* C21.  A sort schedule dispatched while a job of its owner is pending or *)
(* in_progress for its playlist is skipped: the dispatch ends at the       *)
(* active-job query, so no job is created, no worker is started and no     *)
(* remote call is issued for it; the job table, the worker table, the      *)
(* cancel events and the remote playlists stay as they were.               *)
(***************************************************************************)
C21_AsStated ==
    [][(/\ run_sort_schedule_check
        /\ \E j \in JobIds : /\ jobs[j].playlist_id = Head(sched.due).playlist_id
                             /\ jobs[j].user_id = Head(sched.due).user_id
                             /\ jobs[j].status \in Active)
       => /\ sched'.pc # "create"
          /\ Len(jobs') = Len(jobs)
          /\ wk' = wk /\ running' = running /\ remote' = remote]_vars

(***************************************************************************)
(* C22.  The entry of a sort is there as soon as its job reads completed:  *)
(* in every reachable state, each job whose status is completed has its    *)
(* entry in the operation log (no entry expires in SpecUndo, whose clock   *)
(* stands still).                                                          *)
(***************************************************************************)
C22_AsStated ==
    \A j \in JobIds :
        jobs[j].status = "completed" => \E i \in 1..Len(ops) : ops[i].job = j

(***************************************************************************)
(* C23.  The entry written for a completed sort has changes_made = false   *)
(* exactly when the strategy of its job issued no remote mutation call     *)
(* (no move, no replace, no append), for fast and for preserve.            *)
(***************************************************************************)
\* the remote mutation calls the strategy of job j has issued: the moves of
\* preserve, the batches of fast (target_pos is the offset after the last)
C23_CallsIssued(j) ==
    IF jobs[j].method = "preserve" THEN wk[j].moves_made
    ELSE (Min2(wk[j].target_pos, Len(wk[j].tracks)) + batch_size - 1) \div batch_size

C23_AsStated ==
    [][\A j \in JobIds :
          WRecord(j) => (~ops'[Len(ops')].changes_made <=> C23_CallsIssued(j) = 0)]_vars

(***************************************************************************)
(* C24.  calculate_moves_needed(tracks, sorted), the number of positions   *)
(* whose track id differs between the fetched and the sorted list, bounds  *)
(* the moves the preserve strategy issues on that list: at every point of  *)
(* a preserve run, moves_made <= calculate_moves_needed.                   *)
(***************************************************************************)
C24_AsStated ==
    \A j \in JobIds :
        jobs[j].method = "preserve" => wk[j].moves_made <= tracks_to_move(j)

(***************************************************************************)
(* C25.  Both strategies stop early on cancellation: once the cancel event *)
(* of a job is set, its worker issues at most one further remote mutation  *)
(* call (move, replace or append), whichever the method.                   *)
(***************************************************************************)
C25_AsStated == \A j \in JobIds : hist.late[j] <= 1

(***************************************************************************)
(* C26.  A job whose cancel event is set before the last check of its      *)
(* worker ends cancelled and without an entry in the operation log,        *)
(* wherever the worker observes the event: in the fetch loop, between two  *)
(* moves, or after the strategy returned.                                  *)
(***************************************************************************)
\* the step by which the worker of job j leaves its run before recording,
\* the cancel event being set
C26_EndsFlagged(j) ==
    /\ IsSet(j)
    /\ wk[j].pc \notin {"record", "done", "dead"}
    /\ wk'[j].pc \in {"record", "done"}

C27_Raises(j) == WError(j) \/ (WPreserve(j) /\ wk'[j].pc = "done")

C28_Dispatched ==
    /\ sched.pc \in {"run", "create"}
    /\ sched' # sched
    /\ sched'.pc # "create"

\* ... with a failure
C28_Failed == run_sort_schedule_fail \/ run_cache_schedule(FALSE)

C28_FailureIsolated ==
    /\ [][C28_Failed =>
            /\ C28_Dispatched
            /\ \A i \in 1..Len(schedules) :
                  IF schedules[i].id = Head(sched.due).id
                  THEN /\ schedules'[i].status = "failed"
                       /\ schedules'[i].last_error = Some(ERR_EXCEPTION)
                       /\ schedules'[i].last_run_at = Some(now)
                       /\ schedules'[i].next_run_at[1] > now
                  ELSE schedules'[i] = schedules[i]]_vars
    /\ [][C28_Dispatched =>
            /\ sched'.due = Tail(sched.due)
            /\ sched'.pc = IF Tail(sched.due) = <<>> THEN "sleep" ELSE "run"
            /\ \A i \in 1..Len(schedules) :
                  IF schedules[i].id = Head(sched.due).id
                  THEN /\ schedules'[i].last_run_at = Some(now)
                       /\ schedules'[i].status \in {"ok", "failed"}
                  ELSE schedules'[i] = schedules[i]]_vars
    /\ [](/\ \A k \in 1..Len(sched.due) : \A i \in 1..Len(schedules) :
                schedules[i].id = sched.due[k].id => schedules[i].last_run_at = None
          /\ \A k, l \in 1..Len(sched.due) : sched.due[k].id = sched.due[l].id => k = l
          /\ sched.pc = "sleep" =>
                \/ \A i \in 1..Len(schedules) : schedules[i].last_run_at = None
                \/ \A i \in 1..Len(schedules) : schedules[i].last_run_at = Some(now))

\* the dispatch of schedule 2 failed, and the tick went on: schedule 3, a
\* sort and the last of the batch, is past its active-job query
C28_Witness ==
    /\ schedules[2].status = "failed" /\ schedules[2].last_error # None
    /\ schedules[1].status = "ok"
    /\ sched.pc = "create" /\ Head(sched.due).id = 3 /\ Len(sched.due) = 1
    /\ schedules[3].last_run_at = None

(***************************************************************************)
(* C29.  An entry with changes_made = false never appears as undoable:     *)
(* whatever the live snapshot id of the playlist, the history answer       *)
(* annotates no such entry with can_undo = true.                           *)
(***************************************************************************)
C29_AsStated ==
    [][\A u \in Users, p \in Playlists :
          get_playlist_history(u, p) =>
             \A current_snapshot \in {None, Some(snapshot[p])} :
                LET history == get_history(ops', p, u, HistoryLimit)
                IN \A k \in 1..Len(history) :
                      ~history[k].changes_made => ~can_undo(history[k], current_snapshot)]_vars

(***************************************************************************)
(* C30.  The fast strategy on n items issues ceil(n / batch_size) remote   *)
(* calls: a replace carrying the first batch of the target order, then an  *)
(* append for each further batch, in order, and none when n = 0.  After    *)
(* each call the progress of the job is the number of items written so     *)
(* far, and after the last one the playlist is in the target order.  (The  *)
(* snapshot id of SpecSort starts at 0 and counts the calls.)              *)
(***************************************************************************)
C30_TargetOrder(j) == Uris(sorted_tracks(wk[j].tracks, jobs[j].sort_by, jobs[j].direction))

C30_FastCalls ==
    /\ [][WFast(1) =>
            LET target == C30_TargetOrder(1)
                n == Len(target)
                i == wk[1].target_pos
                written == Min2(i + batch_size, n)
            IN IF n = 0
               THEN /\ remote' = remote /\ snapshot' = snapshot
                    /\ wk'[1].pc = "finish"
               ELSE /\ i < n /\ i % batch_size = 0
                    /\ snapshot["p1"] = i \div batch_size
                    /\ snapshot'["p1"] = snapshot["p1"] + 1
                    /\ Uris(remote'["p1"]) =
                          (IF i = 0 THEN <<>> ELSE Uris(remote["p1"]))
                             \o Slice(target, i + 1, i + batch_size)
                    /\ Uris(remote'["p1"]) = Slice(target, 1, written)
                    /\ jobs'[1].progress = written
                    /\ wk'[1].pc = IF written = n THEN "finish" ELSE "sort"]_vars
    /\ []((jobs[1].method = "fast" /\ wk[1].pc = "finish") =>
             /\ Uris(remote["p1"]) = C30_TargetOrder(1)
             /\ snapshot["p1"] = (Len(wk[1].tracks) + batch_size - 1) \div batch_size
             /\ Len(wk[1].tracks) > 0 => jobs[1].progress = Len(wk[1].tracks))

\* three items out of order written in two calls
C30_Witness ==
    /\ jobs[1].method = "fast" /\ wk[1].pc = "finish"
    /\ Len(wk[1].tracks) = MaxLen
    /\ Uris(wk[1].tracks) # C30_TargetOrder(1)
    /\ Uris(remote["p1"]) = C30_TargetOrder(1)
    /\ snapshot["p1"] = 2 /\ jobs[1].progress = MaxLen

(***************************************************************************)
(* C31.  A pending job is marked failed by the stale check if and only if  *)
(* an active-job query of its playlist finds it older than its threshold:  *)
(* more than 2 minutes when total < 100, 5 when total < 500, 10 when       *)
(* total < 1000, 15 otherwise.  The query then reports no active job; a    *)
(* pending job at or below its threshold is reported and left unchanged.   *)
(***************************************************************************)
\* the threshold of the statement, in minutes
C31_Threshold(total) ==
    CASE total < 100 -> 2
      [] total >= 100 /\ total < 500 -> 5
      [] total >= 500 /\ total < 1000 -> 10
      [] OTHER -> 15

C32_AsStated ==
    \A j \in JobIds :
        /\ jobs[j].completed_at # None => jobs[j].status \in Terminal
        /\ jobs[j].status \in Active => jobs[j].completed_at = None


\* C33: undoing a duplicates_remove entry, with no other write to the
\* playlist since the removal, leaves the playlist with exactly the item
\* sequence it had before the removal, whatever positions were removed.
C33_UndoesRemoval ==
    LET rows == cleanup_expired(ops)
        i == get_latest_operation(rows, "p1", "u1")
    IN i # 0 /\ rows[i].op_type = "duplicates_remove"
       /\ ~Conflict(snapshot["p1"], rows[i].snapshot_after)

C33_RoundTrip ==
    [][(undo_last_operation("u1", "p1") /\ C33_UndoesRemoval /\ hist.clean["p1"])
          => /\ resp'.code = 200
             /\ Uris(remote'["p1"]) = hist.before["p1"]
             /\ Len(remote'["p1"]) = Len(remote["p1"]) + Len(ops'[Len(ops')].removed_items)]_vars

\* two occurrences of track 1 and track 3 between them; the first two
\* positions were removed and the undo put them back
C33_Witness ==
    /\ resp = Response("undo", "u1", "p1", 200, 0)
    /\ hist.before["p1"] = <<1, 3, 1>>
    /\ Uris(remote["p1"]) = <<1, 3, 1>>
    /\ Len(ops) = 1
    /\ ops[1].undone
    /\ ops[1].removed_items = <<RemovedItem(1, 0), RemovedItem(3, 1)>>


\* C34: a start_sort refused because the user is at the per-user limit
\* answers with the limit-exceeded outcome, HTTP 429, and not with the 500 of
\* an internal failure.
C34_AsStated ==
    [][\A u \in Users, p \in Playlists, m \in Methods :
          (/\ start_sort(u, p, "title", "asc", m)
           /\ LimitReached(get_user_active_job_count(u)))
             => resp'.code = 429]_vars


\* C35: once the worker has set the job's total from its analysis, the
\* stored progress of the job never exceeds its total, for both strategies
\* and for a playlist that is already sorted.
C35_AsStated ==
    \A j \in JobIds :
        wk[j].pc \in {"sort", "finish", "record", "done"}
            => jobs[j].progress <= jobs[j].total


\* C36: while the preserve strategy runs undisturbed, the first target_pos
\* remote positions hold the first target_pos items of the target order and
\* the wanted item sits at current_pos >= target_pos; every move is issued
\* with range_start = current_pos > target_pos and insert_before =
\* target_pos, never with insert_before = target_pos + 1, and brings the item
\* towards the front.
C36_Wanted(j) ==
    sorted_indexed(wk[j].tracks, jobs[j].sort_by, jobs[j].direction)[wk[j].target_pos + 1]

C36_Current(j) == IndexOf(wk[j].current_positions, C36_Wanted(j))

C36_Running(j) ==
    /\ jobs[j].method = "preserve"
    /\ wk[j].pc = "sort"
    /\ preserve_moves_needed(wk[j].tracks, jobs[j].sort_by, jobs[j].direction) > 0

C36_MovesToFront ==
    /\ [](\A j \in JobIds : C36_Running(j) =>
            LET p == wk[j].target_pos
                target == sorted_tracks(wk[j].tracks, jobs[j].sort_by, jobs[j].direction)
            IN /\ Slice(remote["p1"], 1, p) = Slice(target, 1, p)
               /\ C36_Current(j) >= p
               /\ remote["p1"][C36_Current(j) + 1] = target[p + 1])
    /\ [][\A j \in JobIds :
            (WPreserve(j) /\ snapshot' # snapshot) =>
                LET p == wk[j].target_pos
                    c == C36_Current(j)
                IN /\ c > p
                   /\ InsertBefore(p, c) = p
                   /\ remote'["p1"] = RemoteReorder(remote["p1"], c, p)
                   /\ remote'["p1"][p + 1] = remote["p1"][c + 1]
                   /\ wk'[j].target_pos = p + 1]_vars

\* three distinct tracks in reverse target order: the second move took the
\* item at position 2 to position 1
C36_Witness ==
    /\ jobs[1].method = "preserve"
    /\ Len(wk[1].tracks) = 3
    /\ wk[1].moves_made = 2
    /\ wk[1].target_pos = 2
    /\ snapshot["p1"] = 2
    /\ remote["p1"] = sorted_tracks(wk[1].tracks, jobs[1].sort_by, jobs[1].direction)
    /\ remote["p1"][1] = wk[1].tracks[3]
    /\ remote["p1"][2] = wk[1].tracks[2]


\* C37: at every point of a preserve run that no other writer disturbs, and
\* after it has stopped early on a cancellation or on a move that raised,
\* the playlist holds exactly the items the run started from, none lost and
\* none twice, and its first k positions hold the first k items of the
\* target order, k being the number of target positions processed.
C37_Count(seq, x) == Cardinality({i \in 1..Len(seq) : seq[i] = x})

C37_Permutation(a, b) ==
    /\ Len(a) = Len(b)
    /\ \A i \in 1..Len(a) : C37_Count(a, a[i]) = C37_Count(b, a[i])

\* the strategy of the preserve job j was entered, and only j has written to
\* the playlist since j read it
C37_Run(j) ==
    /\ jobs[j].method = "preserve"
    /\ wk[j].pc \in {"sort", "finish", "record", "done"}
    /\ wk[j].tracks # <<>>
    /\ Len(wk[j].current_positions) = Len(wk[j].tracks)
    /\ hist.sortJob[jobs[j].playlist_id] = j
    /\ hist.clean[jobs[j].playlist_id]

C37_PermutationWithPrefix ==
    \A j \in JobIds : C37_Run(j) =>
        LET r == remote[jobs[j].playlist_id]
            k == wk[j].target_pos
            target == sorted_tracks(wk[j].tracks, jobs[j].sort_by, jobs[j].direction)
        IN /\ C37_Permutation(r, wk[j].tracks)
           /\ r = [i \in 1..Len(r) |-> wk[j].tracks[wk[j].current_positions[i] + 1]]
           /\ Slice(r, 1, k) = Slice(target, 1, k)

\* a run that stopped after its first move, cancelled or on a move that
\* raised: one position in place, the rest not yet in target order
C37_Stopped(k, status) ==
    /\ C37_Run(k)
    /\ jobs[k].status = status /\ wk[k].pc = "done"
    /\ wk[k].moves_made = 1 /\ wk[k].target_pos >= 1
    /\ remote["p1"] # sorted_tracks(wk[k].tracks, jobs[k].sort_by, jobs[k].direction)
    /\ remote["p1"] # wk[k].tracks

C37_Witness == \E k \in JobIds : C37_Stopped(k, "failed")

C37_WitnessCancelled == \E k \in JobIds : C37_Stopped(k, "cancelled")


\* C38: under fair scheduling every job handed to the pool ends: its row
\* reaches completed, failed or cancelled and stays there, its worker
\* returns, and its cancel event leaves the registry; this includes the job
\* that waits in the queue while every pool thread is taken.
C38_Ended(j) ==
    /\ jobs[j].status \in Terminal
    /\ wk[j].pc = "done"
    /\ j \notin DOMAIN running

C38_EveryJobEnds == <>[](\A j \in PoolJobs : C38_Ended(j))

\* the queued job had to wait for a thread, ran and completed
C38_Witness ==
    /\ \A j \in PoolJobs : C38_Ended(j)
    /\ jobs[max_workers + 1].status = "completed"
    /\ Len(ops) = 1
    /\ ops[1].job = max_workers + 1


\* C39: while the scheduler keeps ticking, every enabled schedule whose
\* next_run_at has passed is eventually dispatched and marked, its
\* next_run_at then in the future, also when more schedules are due than one
\* tick takes; a tick takes the limit's worth of the oldest and leaves the
\* youngest for the next tick.
C39_Marked(i) ==
    /\ schedules[i].last_run_at = Some(now)
    /\ schedules[i].status \in {"ok", "failed"}
    /\ schedules[i].next_run_at # None
    /\ schedules[i].next_run_at[1] > now

C39_NoStarvation ==
    /\ (\A i \in BacklogIds : Due(schedules[i])) ~> [](\A i \in BacklogIds : C39_Marked(i))
    /\ [][run_due =>
            /\ Len(sched'.due) = Min2(DueLimit,
                                     Cardinality({i \in BacklogIds : Due(schedules[i])}))
            /\ \A k \in 1..Len(sched'.due), i \in BacklogIds :
                  (/\ Due(schedules[i])
                   /\ \A m \in 1..Len(sched'.due) : sched'.due[m].id # i)
                      => sched'.due[k].next_run_at[1] <= schedules[i].next_run_at[1]]_vars

\* the second tick: the ten older schedules are marked and the youngest,
\* left out by the first tick, is the batch
C39_Witness ==
    /\ sched.pc = "run"
    /\ Len(sched.due) = 1
    /\ Head(sched.due).id = 4
    /\ schedules[4].next_run_at = Some(StartTime)
    /\ \A i \in BacklogIds \ {4} : C39_Marked(i)
    /\ schedules[1].status = "failed"


\* C40: at most max_workers jobs are in_progress at any time: every
\* in_progress job is held by a pool thread, a job becomes in_progress only
\* in the step in which a free thread takes it, a thread leaves its job only
\* with a terminal status written, and a job submitted to a full pool stays
\* pending in the queue until a thread is free.
C40_InProgress == {j \in JobIds : jobs[j].status = "in_progress"}

=============================================================================
